---- MODULE Spec2Model ----
(***************************************************************************)
(* Handwriting-image analysis pipeline of lexilearn                        *)
(* (src/lexi/backend/ml_models/handwriting_recognition.py).                *)
(*                                                                         *)
(* Text is a sequence of one-character strings.  A real number the code    *)
(* computes in floating point is kept as an exact fraction <<num, den>>    *)
(* with den > 0.  A coordinate the code halves (a box centre) is kept      *)
(* doubled.                                                                *)
(***************************************************************************)
EXTENDS Integers, Sequences, FiniteSets, TLC

VARIABLES
    pc,                  \* position of the running operation
    image,               \* the image behind image_path (the input)
    engine,              \* the recognition engine's answers for this image
    tesseract_available, \* TesseractOCRProcessor.tesseract_available
    content_validation,  \* verdict of _validate_image_content
    attempt,             \* index of the next (variant, config) attempt
    best,                \* best attempt so far in _ocr_with_tokens
    rival,               \* score of one earlier attempt that produced tokens
    character_analysis,  \* the dict _analyze_characters returns
    text,                \* text of recognize_handwriting
    tokens,              \* tokens of recognize_handwriting
    mapping,             \* result of _map_characters_to_words
    word_feedback,       \* result of _build_word_feedback
    result,              \* the dict recognize_handwriting returns
    first_result,        \* result of the first call
    calls,               \* completed recognize_handwriting calls
    ran,                 \* stages the current call has run
    disk                 \* files on disk

vars == <<pc, image, engine, tesseract_available, content_validation, attempt,
          best, rival, character_analysis, text, tokens, mapping, word_feedback,
          result, first_result, calls, ran, disk>>

NoValue == [none |-> TRUE]

(***************************************************************************)
(* Characters and strings                                                  *)
(***************************************************************************)
Letters == {"o", "a", "c", "d", "e", "h", "i", "l", "m", "n", "r", "t", "v", "w",
            "I", "O"}
Digits == {"0", "1", "5", "8"}
Whitespace == {" ", "\n", "\r", "\t"}

IsAlpha(c) == c \in Letters
IsAlnum(c) == c \in Letters \cup Digits
IsSpace(c) == c \in Whitespace

Max(a, b) == IF a >= b THEN a ELSE b
Min(a, b) == IF a <= b THEN a ELSE b
Abs(a) == IF a >= 0 THEN a ELSE -a

RECURSIVE LStrip(_)
LStrip(s) ==
    IF s = <<>> THEN <<>>
    ELSE IF IsSpace(Head(s)) THEN LStrip(Tail(s)) ELSE s

RECURSIVE RStrip(_)
RStrip(s) ==
    IF s = <<>> THEN <<>>
    ELSE IF IsSpace(s[Len(s)]) THEN RStrip(SubSeq(s, 1, Len(s) - 1)) ELSE s

\* str.strip()
Strip(s) == RStrip(LStrip(s))

\* str.split(): the maximal runs of non-whitespace characters
RECURSIVE SplitFrom(_, _, _)
SplitFrom(s, i, cur) ==
    IF i > Len(s) THEN (IF cur = <<>> THEN <<>> ELSE <<cur>>)
    ELSE IF IsSpace(s[i])
         THEN (IF cur = <<>> THEN <<>> ELSE <<cur>>) \o SplitFrom(s, i + 1, <<>>)
         ELSE SplitFrom(s, i + 1, Append(cur, s[i]))

Split(s) == SplitFrom(s, 1, <<>>)

\* str.split(sep) for a one-character separator: empty pieces are kept
RECURSIVE SplitOnFrom(_, _, _, _)
SplitOnFrom(s, sep, i, cur) ==
    IF i > Len(s) THEN <<cur>>
    ELSE IF s[i] = sep
         THEN <<cur>> \o SplitOnFrom(s, sep, i + 1, <<>>)
         ELSE SplitOnFrom(s, sep, i + 1, Append(cur, s[i]))

SplitOn(s, sep) == SplitOnFrom(s, sep, 1, <<>>)

\* sep.join(parts)
RECURSIVE Join(_, _)
Join(parts, sep) ==
    IF parts = <<>> THEN <<>>
    ELSE IF Len(parts) = 1 THEN parts[1]
    ELSE parts[1] \o sep \o Join(Tail(parts), sep)

\* str.replace(old, new): left to right, occurrences do not overlap
RECURSIVE ReplaceFrom(_, _, _, _)
ReplaceFrom(s, old, new, i) ==
    IF i > Len(s) THEN <<>>
    ELSE IF i + Len(old) - 1 <= Len(s) /\ SubSeq(s, i, i + Len(old) - 1) = old
         THEN new \o ReplaceFrom(s, old, new, i + Len(old))
         ELSE <<s[i]>> \o ReplaceFrom(s, old, new, i + 1)

Replace(s, old, new) == ReplaceFrom(s, old, new, 1)

RECURSIVE SumSeq(_)
SumSeq(s) == IF s = <<>> THEN 0 ELSE Head(s) + SumSeq(Tail(s))

\* fractions <<num, den>>, den > 0
FracLt(a, b) == a[1] * b[2] < b[1] * a[2]
FracLe(a, b) == a[1] * b[2] <= b[1] * a[2]
FracEq(a, b) == a[1] * b[2] = b[1] * a[2]

\* sorted(s, key=...): stable; Before(a, b) is key(a) < key(b)
SortedBy(s, Before(_, _)) ==
    LET rank(i) == 1 + Cardinality({j \in 1..Len(s) :
                        \/ Before(s[j], s[i])
                        \/ (~Before(s[i], s[j]) /\ j < i)})
    IN  [k \in 1..Len(s) |-> s[CHOOSE i \in 1..Len(s) : rank(i) = k]]

(***************************************************************************)
(* Content validator: _validate_image_content                              *)
(***************************************************************************)
MinWidth == 100
MinHeight == 50
StdFloor == 10
EdgeDenseMax == 300     \* edge_density > 0.3, in thousandths
EdgeSparseMin == 10     \* edge_density < 0.01, in thousandths
SkinMax == 150          \* skin_ratio > 0.15, in thousandths

Verdict(h, t, m) == [is_handwriting |-> h, detected_type |-> t, message |-> m]

\* ValidateChecks with the uniformity floor tested before the size floor
ValidateChecksStdFirst(img) ==
    IF img.faces > 0
    THEN Verdict(FALSE, "human_face", "I can see a person in this image. Please upload an image of handwritten text instead.")
    ELSE IF img.color_std < StdFloor
    THEN Verdict(FALSE, "uniform_color", "I don't see any handwriting in this image. Please make sure there's clear text written on paper.")
    ELSE IF img.width < MinWidth \/ img.height < MinHeight
    THEN Verdict(FALSE, "too_small", "Image is too small. Please upload a clearer image of your handwriting.")
    ELSE Verdict(TRUE, "handwriting", "Image appears to contain handwriting")

\* img.faces: faces found by the cascade, -1 when face detection raises.
\* img.cv_raises: the conversion or a later OpenCV call raises.
ValidateChecks(img) ==
    IF img.faces > 0
    THEN Verdict(FALSE, "human_face", "I can see a person in this image. Please upload an image of handwritten text instead.")
    ELSE IF img.width < MinWidth \/ img.height < MinHeight
    THEN Verdict(FALSE, "too_small", "Image is too small. Please upload a clearer image of your handwriting.")
    ELSE IF img.color_std < StdFloor
    THEN Verdict(FALSE, "uniform_color", "I don't see any handwriting in this image. Please make sure there's clear text written on paper.")
    ELSE IF img.edge_density > EdgeDenseMax
    THEN Verdict(FALSE, "complex_scene", "This looks like a photo rather than handwriting. Please upload an image of text written on paper.")
    ELSE IF img.edge_density < EdgeSparseMin
    THEN Verdict(FALSE, "no_content", "I don't see any clear handwriting. Please write with darker ink and ensure good lighting.")
    ELSE IF img.skin_ratio > SkinMax
    THEN Verdict(FALSE, "human_detected", "I can see a person in this image. Please upload an image of handwritten text on paper instead.")
    ELSE Verdict(TRUE, "handwriting", "Image appears to contain handwriting")

ValidateImageContent(img) ==
    IF img.cv_raises
    THEN Verdict(TRUE, "unknown", "Could not validate image content")
    ELSE ValidateChecks(img)

(***************************************************************************)
(* Character segmenter: _analyze_characters and its helpers                *)
(*                                                                         *)
(* A contour is what cv2.findContours / boundingRect / contourArea and the *)
(* per-region OpenCV and engine calls give for one connected component:    *)
(*   area, x, y, w, h   contourArea and boundingRect                       *)
(*   cols               ink pixels of the mask in each column of the box   *)
(*   feat               raises: _extract_geometric_features raises; else   *)
(*                      the measured perimeter, circularity (thousandths), *)
(*                      loops, curves, strokes (taken as the same for each *)
(*                      slice of a split box)                              *)
(*   glyph              the single-glyph request: kind "rows" with the     *)
(*                      rows the engine returns, "engine_error", or        *)
(*                      "crash" (an exception outside the engine call)     *)
(***************************************************************************)
MaskOn == 255
MinBoxSide == 5
MinSliceWidth == 5
MinAreaFloor == 20
DefaultArea == 100

Box(x, y, w, h) == <<x, y, w, h>>

\* 10 * np.percentile(proj, 30), linear interpolation between order statistics
Percentile30x10(proj) ==
    LET n == Len(proj)
        srt == SortedBy(proj, LAMBDA a, b : a < b)
        pos == 3 * (n - 1)
        lo == (pos \div 10) + 1
        fr == pos % 10
    IN  IF lo >= n THEN 10 * srt[n]
        ELSE 10 * srt[lo] + fr * (srt[lo + 1] - srt[lo])

\* the scan of lines 671-678; i counts columns from 0 as the code does
RECURSIVE ScanSegments(_, _, _, _, _, _)
ScanSegments(proj, thresh10, i, in_gap, start, segments) ==
    IF i >= Len(proj) THEN segments
    ELSE LET val == proj[i + 1] IN
         IF 10 * val <= thresh10 /\ ~in_gap
         THEN ScanSegments(proj, thresh10, i + 1, TRUE, start,
                           IF i - start > MinSliceWidth
                           THEN Append(segments, <<start, i>>) ELSE segments)
         ELSE IF 10 * val > thresh10 /\ in_gap
         THEN ScanSegments(proj, thresh10, i + 1, FALSE, i, segments)
         ELSE ScanSegments(proj, thresh10, i + 1, in_gap, start, segments)

\* lines 681-689: the boxes cut at the segments
RECURSIVE CutBoxes(_, _, _, _, _, _, _)
CutBoxes(segments, k, prev, x, y, w, h) ==
    IF k > Len(segments)
    THEN (IF w - prev > MinSliceWidth THEN <<Box(x + prev, y, w - prev, h)>> ELSE <<>>)
    ELSE LET s == segments[k][1]
             e == segments[k][2]
             ww == s - prev
         IN  (IF ww > MinSliceWidth THEN <<Box(x + prev, y, ww, h)>> ELSE <<>>)
             \o CutBoxes(segments, k + 1, e, x, y, w, h)

split_wide_bbox(x, y, w, h, cols) ==
    IF 10 * w <= 18 * h THEN <<Box(x, y, w, h)>>
    ELSE LET proj == [i \in 1..Len(cols) |-> MaskOn * cols[i]]
             segments == ScanSegments(proj, Percentile30x10(proj), 0, FALSE, 0, <<>>)
             boxes == CutBoxes(segments, 1, 0, x, y, w, h)
         IN  IF Len(segments) < 1 THEN <<Box(x, y, w, h)>>
             ELSE IF boxes # <<>> THEN boxes ELSE <<Box(x, y, w, h)>>

DefaultFeatures ==
    [area |-> DefaultArea, aspect_ratio |-> <<1, 1>>, has_loops |-> FALSE,
     has_curves |-> FALSE, stroke_count |-> 1]

\* _extract_geometric_features on the contour and the pw x ph slice of the mask
ExtractGeometricFeatures(c, pw, ph) ==
    [area |-> c.area, perimeter |-> c.feat.perimeter,
     aspect_ratio |-> IF ph > 0 THEN <<pw, ph>> ELSE <<0, 1>>,
     circularity |-> IF c.feat.perimeter > 0 THEN c.feat.circularity ELSE 0,
     has_loops |-> c.feat.loops, has_curves |-> c.feat.curves,
     stroke_count |-> c.feat.strokes]

ExtractGeometricFeaturesSafe(c, pw, ph) ==
    IF c.feat.raises THEN DefaultFeatures
    ELSE ExtractGeometricFeatures(c, pw, ph)

Lower(ch) == IF ch = "I" THEN "i" ELSE IF ch = "O" THEN "o" ELSE ch

Match(letter, conf, why) == [letter |-> letter, confidence |-> conf, reasoning |-> why]

\* rows of image_to_data kept by "char and conf > 10"; confidence is conf / 100
GlyphMatches(rows) ==
    LET kept == SelectSeq(rows, LAMBDA r : Strip(r.text) # <<>> /\ r.conf > 10)
        ms == [i \in 1..Len(kept) |->
                 Match([j \in 1..Len(Strip(kept[i].text)) |-> Lower(Strip(kept[i].text)[j])],
                       <<kept[i].conf, 100>>, "OCR recognition")]
        srt == SortedBy(ms, LAMBDA a, b : FracLt(b.confidence, a.confidence))
    IN  SubSeq(srt, 1, Min(3, Len(srt)))

\* _enhanced_template_match: lib is whether "import pytesseract" succeeds
EnhancedTemplateMatch(lib, glyph, pw, ph) ==
    IF ~lib THEN <<>>
    ELSE IF ph = 0 \/ pw = 0 THEN <<>>
    ELSE IF glyph.kind = "engine_error" THEN <<>>
    ELSE GlyphMatches(glyph.rows)

EnhancedTemplateMatchSafe(lib, glyph, pw, ph) ==
    IF lib /\ pw > 0 /\ ph > 0 /\ glyph.kind = "crash"
    THEN <<Match(<<"?">>, <<1, 10>>, "Could not analyze")>>
    ELSE EnhancedTemplateMatch(lib, glyph, pw, ph)

Issue(k, d, s) == [type |-> k, description |-> d, suggestion |-> s]

Get(f, key, dflt) == IF key \in DOMAIN f THEN f[key] ELSE dflt

\* AnalyzeCharacterErrors with the bounds 0.3 of the circularity and 2 of the
\* stroke count included
AnalyzeCharacterErrorsInclusive(f) ==
    LET circ == Get(f, "circularity", 0)
        ar == Get(f, "aspect_ratio", <<1, 1>>)
    IN  (IF Get(f, "has_curves", FALSE) /\ circ <= 300
         THEN <<Issue("incomplete_curve", "Curve appears incomplete or irregular",
                      "Practice smooth, continuous curves")>> ELSE <<>>)
        \o (IF ~Get(f, "has_loops", FALSE) /\ circ > 600
            THEN <<Issue("unclosed_loop", "Loop may not be properly closed",
                         "Ensure loops are completely closed")>> ELSE <<>>)
        \o (IF FracLt(<<25, 10>>, ar)
            THEN <<Issue("flipped_letter", "Character appears unusually wide, possibly flipped",
                         "Check letter orientation (b vs d, p vs q)")>>
            ELSE IF FracLt(ar, <<3, 10>>)
            THEN <<Issue("compressed_letter", "Character appears too tall or compressed",
                         "Maintain consistent letter proportions")>> ELSE <<>>)
        \o (IF Get(f, "stroke_count", 1) >= 2
            THEN <<Issue("broken_stroke", "Character has disconnected parts",
                         "Write with continuous, connected strokes")>> ELSE <<>>)

\* _analyze_character_errors: circularity in thousandths, aspect ratio a fraction
AnalyzeCharacterErrors(f) ==
    LET circ == Get(f, "circularity", 0)
        ar == Get(f, "aspect_ratio", <<1, 1>>)
    IN  (IF Get(f, "has_curves", FALSE) /\ circ < 300
         THEN <<Issue("incomplete_curve", "Curve appears incomplete or irregular",
                      "Practice smooth, continuous curves")>> ELSE <<>>)
        \o (IF ~Get(f, "has_loops", FALSE) /\ circ > 600
            THEN <<Issue("unclosed_loop", "Loop may not be properly closed",
                         "Ensure loops are completely closed")>> ELSE <<>>)
        \o (IF FracLt(<<25, 10>>, ar)
            THEN <<Issue("flipped_letter", "Character appears unusually wide, possibly flipped",
                         "Check letter orientation (b vs d, p vs q)")>>
            ELSE IF FracLt(ar, <<3, 10>>)
            THEN <<Issue("compressed_letter", "Character appears too tall or compressed",
                         "Maintain consistent letter proportions")>> ELSE <<>>)
        \o (IF Get(f, "stroke_count", 1) > 2
            THEN <<Issue("broken_stroke", "Character has disconnected parts",
                         "Write with continuous, connected strokes")>> ELSE <<>>)

min_area(img) == Max(MinAreaFloor, (5 * img.width * img.height) \div 100000)
max_area(img) == (img.width * img.height) \div 10

\* Accepted without the box-side test
AcceptedAreaOnly(img, c) ==
    ~(c.area < min_area(img) \/ c.area > max_area(img))

\* lines 694-699: the contours that pass the area and box-side filters
Accepted(img, c) ==
    /\ ~(c.area < min_area(img) \/ c.area > max_area(img))
    /\ ~(c.w < MinBoxSide \/ c.h < MinBoxSide)

\* lines 755-760: _analyze_character_errors_safe
AnalyzeCharacterErrorsSafe(c, f) ==
    IF c.feat.analysis_raises THEN <<>> ELSE AnalyzeCharacterErrors(f)

\* RegionsOf without the safe wrappers: the failure reaches the except of
\* the contour loop and the contour is skipped
RegionsOfOrSkip(lib, c) ==
    IF c.feat.raises \/ c.feat.analysis_raises \/ c.glyph.kind = "crash"
    THEN <<>>
    ELSE LET parts == split_wide_bbox(c.x, c.y, c.w, c.h, c.cols)
         IN  [k \in 1..Len(parts) |->
                LET pw == parts[k][3]
                    ph == parts[k][4]
                    features == ExtractGeometricFeaturesSafe(c, pw, ph)
                IN  [bbox |-> parts[k],
                     features |-> features,
                     template_matches |-> EnhancedTemplateMatchSafe(lib, c.glyph, pw, ph),
                     errors |-> AnalyzeCharacterErrorsSafe(c, features)]]

\* lines 701-714 for one contour: one region per part, ids filled in later
RegionsOf(lib, c) ==
    LET parts == split_wide_bbox(c.x, c.y, c.w, c.h, c.cols)
    IN  [k \in 1..Len(parts) |->
           LET pw == parts[k][3]
               ph == parts[k][4]
               features == ExtractGeometricFeaturesSafe(c, pw, ph)
           IN  [bbox |-> parts[k],
                features |-> features,
                template_matches |-> EnhancedTemplateMatchSafe(lib, c.glyph, pw, ph),
                errors |-> AnalyzeCharacterErrorsSafe(c, features)]]

RECURSIVE RegionsFrom(_, _, _, _)
RegionsFrom(lib, img, cs, k) ==
    IF k > Len(cs) THEN <<>>
    ELSE (IF Accepted(img, cs[k]) THEN RegionsOf(lib, cs[k]) ELSE <<>>)
         \o RegionsFrom(lib, img, cs, k + 1)

\* the characters list of _analyze_characters, char_id counting from 0
AnalyzeCharacters(lib, img) ==
    LET rs == RegionsFrom(lib, img, img.contours, 1)
    IN  [k \in 1..Len(rs) |->
           [id |-> k - 1, bbox |-> rs[k].bbox, features |-> rs[k].features,
            template_matches |-> rs[k].template_matches, errors |-> rs[k].errors]]

(***************************************************************************)
(* Word mapper: _map_characters_to_words                                   *)
(***************************************************************************)
\* center_of(bbox), doubled
Center2(b) == <<2 * b[1] + b[3], 2 * b[2] + b[4]>>

\* x <= cx <= x + w and y <= cy <= y + h
ContainsCenter(t, c2) ==
    /\ 2 * t.bbox[1] <= c2[1] /\ c2[1] <= 2 * (t.bbox[1] + t.bbox[3])
    /\ 2 * t.bbox[2] <= c2[2] /\ c2[2] <= 2 * (t.bbox[2] + t.bbox[4])

\* Dist2 with the vertical distance counted once
Dist2Unweighted(t, c2) ==
    LET x == t.bbox[1]
        y == t.bbox[2]
        w == t.bbox[3]
        h == t.bbox[4]
        vdist == IF 2 * y <= c2[2] /\ c2[2] <= 2 * (y + h) THEN 0
                 ELSE Min(Abs(c2[2] - 2 * y), Abs(c2[2] - 2 * (y + h)))
        hdist == IF 2 * x <= c2[1] /\ c2[1] <= 2 * (x + w) THEN 0
                 ELSE Min(Abs(c2[1] - 2 * x), Abs(c2[1] - 2 * (x + w)))
    IN  vdist + hdist

\* dist = vdist * 2 + hdist, doubled
Dist2(t, c2) ==
    LET x == t.bbox[1]
        y == t.bbox[2]
        w == t.bbox[3]
        h == t.bbox[4]
        vdist == IF 2 * y <= c2[2] /\ c2[2] <= 2 * (y + h) THEN 0
                 ELSE Min(Abs(c2[2] - 2 * y), Abs(c2[2] - 2 * (y + h)))
        hdist == IF 2 * x <= c2[1] /\ c2[1] <= 2 * (x + w) THEN 0
                 ELSE Min(Abs(c2[1] - 2 * x), Abs(c2[1] - 2 * (x + w)))
    IN  vdist * 2 + hdist

\* BestWord without the nearest-token search of lines 478-491
BestWordContainedOnly(toks, cb) ==
    LET c2 == Center2(cb)
        inside == {wi \in 1..Len(toks) : ContainsCenter(toks[wi], c2)}
    IN  IF inside # {} THEN (CHOOSE wi \in inside : \A wj \in inside : wi <= wj) - 1
        ELSE -1

\* best_word of lines 469-491 as an index into tokens from 0; -1 when none
BestWord(toks, cb) ==
    LET c2 == Center2(cb)
        inside == {wi \in 1..Len(toks) : ContainsCenter(toks[wi], c2)}
        nearest == {wi \in 1..Len(toks) :
                      \A wj \in 1..Len(toks) :
                         /\ Dist2(toks[wi], c2) <= Dist2(toks[wj], c2)
                         /\ (wj < wi => Dist2(toks[wi], c2) < Dist2(toks[wj], c2))}
    IN  IF inside # {} THEN (CHOOSE wi \in inside : \A wj \in inside : wi <= wj) - 1
        ELSE IF nearest # {} THEN (CHOOSE wi \in nearest : TRUE) - 1
        ELSE -1

\* AssignedWords with the append inside the containment loop and no break
AssignedWordsEveryHit(toks, cb) ==
    LET hits == SelectSeq([wi \in 1..Len(toks) |-> wi],
                          LAMBDA wi : ContainsCenter(toks[wi], Center2(cb)))
    IN  IF hits # <<>> THEN [i \in 1..Len(hits) |-> hits[i] - 1]
        ELSE IF BestWord(toks, cb) = -1 THEN <<>> ELSE <<BestWord(toks, cb)>>

\* the word indices one character is appended under (lines 492-501)
AssignedWords(toks, cb) ==
    IF BestWord(toks, cb) = -1 THEN <<>> ELSE <<BestWord(toks, cb)>>

RECURSIVE MappedFrom(_, _, _)
MappedFrom(chars, toks, k) ==
    IF k > Len(chars) THEN <<>>
    ELSE LET ws == AssignedWords(toks, chars[k].bbox)
         IN  [i \in 1..Len(ws) |->
                [word_index |-> ws[i], char_bbox |-> chars[k].bbox,
                 template_matches |-> chars[k].template_matches,
                 errors |-> chars[k].errors]]
             \o MappedFrom(chars, toks, k + 1)

\* WithCharIndex counting over the whole list instead of one word's entries
WithCharIndexGlobal(mapped) ==
    [i \in 1..Len(mapped) |->
       [word_index |-> mapped[i].word_index, char_bbox |-> mapped[i].char_bbox,
        template_matches |-> mapped[i].template_matches,
        errors |-> mapped[i].errors,
        char_index |-> Cardinality({j \in 1..Len(mapped) :
            \/ mapped[j].char_bbox[1] < mapped[i].char_bbox[1]
            \/ (mapped[j].char_bbox[1] = mapped[i].char_bbox[1] /\ j < i)})]]

\* lines 503-510: char_index is the rank, by char_bbox x, among the entries of
\* the same word
WithCharIndex(mapped) ==
    [i \in 1..Len(mapped) |->
       [word_index |-> mapped[i].word_index, char_bbox |-> mapped[i].char_bbox,
        template_matches |-> mapped[i].template_matches,
        errors |-> mapped[i].errors,
        char_index |-> Cardinality({j \in 1..Len(mapped) :
            /\ mapped[j].word_index = mapped[i].word_index
            /\ \/ mapped[j].char_bbox[1] < mapped[i].char_bbox[1]
               \/ (mapped[j].char_bbox[1] = mapped[i].char_bbox[1] /\ j < i)})]]

\* NewMapped as a list that outlives the call
StaleMapped == mapping

\* mapped = [] of line 444
NewMapped == <<>>

MapCharactersToWords(chars, toks) ==
    IF chars = <<>> \/ toks = <<>> THEN NewMapped
    ELSE WithCharIndex(NewMapped \o
            MappedFrom(SortedBy(chars, LAMBDA a, b : a.bbox[1] < b.bbox[1]), toks, 1))

\* lines 455-463: every token gets _line_pos, its rank by bbox x on its line
WithLinePos(toks) ==
    [i \in 1..Len(toks) |->
       [f \in DOMAIN toks[i] \cup {"line_pos"} |->
          IF f = "line_pos"
          THEN Cardinality({j \in 1..Len(toks) :
                  /\ toks[j].line_num = toks[i].line_num
                  /\ \/ toks[j].bbox[1] < toks[i].bbox[1]
                     \/ (toks[j].bbox[1] = toks[i].bbox[1] /\ j < i)})
          ELSE toks[i][f]]]

\* what _map_characters_to_words leaves in the caller's token list
TokensAfterMapping(chars, toks) ==
    IF chars = <<>> \/ toks = <<>> THEN toks ELSE WithLinePos(toks)

(***************************************************************************)
(* Feedback synthesizer: _build_word_feedback                              *)
(***************************************************************************)
\* IssueEntry with the hint of any top candidate, whatever its confidence
IssueEntryAnyHint(m) ==
    [char_index |-> Get(m, "char_index", 0),
     letter_hint |-> IF m.template_matches # <<>>
                     THEN m.template_matches[1].letter ELSE <<>>,
     description |-> m.errors[1].description,
     suggestion |-> m.errors[1].suggestion]

\* letter_hint: None is the empty sequence (a match's letter is never empty)
IssueEntry(m) ==
    [char_index |-> Get(m, "char_index", 0),
     letter_hint |-> IF m.template_matches # <<>>
                        /\ FracLe(<<1, 2>>, m.template_matches[1].confidence)
                     THEN m.template_matches[1].letter ELSE <<>>,
     description |-> m.errors[1].description,
     suggestion |-> m.errors[1].suggestion]

\* WordIssues with each issue put in front of the list and no sort
WordIssuesLatestFirst(mapped, wi) ==
    LET mine == SelectSeq(mapped, LAMBDA m : m.errors # <<>> /\ m.word_index = wi)
    IN  [i \in 1..Len(mine) |-> IssueEntry(mine[Len(mine) + 1 - i])]

WordIssues(mapped, wi) ==
    LET mine == SelectSeq(mapped, LAMBDA m : m.errors # <<>> /\ m.word_index = wi)
    IN  SortedBy([i \in 1..Len(mine) |-> IssueEntry(mine[i])],
                 LAMBDA a, b : a.char_index < b.char_index)

\* FeedbackFrom without the "if not issues: continue" of lines 540-541
RECURSIVE FeedbackFromEveryWord(_, _, _)
FeedbackFromEveryWord(toks, mapped, k) ==
    IF k > Len(toks) THEN <<>>
    ELSE <<[word_index |-> k - 1, word |-> toks[k].word,
            issues |-> WordIssues(mapped, k - 1)]>>
         \o FeedbackFromEveryWord(toks, mapped, k + 1)

RECURSIVE FeedbackFrom(_, _, _)
FeedbackFrom(toks, mapped, k) ==
    IF k > Len(toks) THEN <<>>
    ELSE (IF WordIssues(mapped, k - 1) = <<>> THEN <<>>
          ELSE <<[word_index |-> k - 1, word |-> toks[k].word,
                  issues |-> WordIssues(mapped, k - 1)]>>)
         \o FeedbackFrom(toks, mapped, k + 1)

BuildWordFeedback(toks, mapped) ==
    IF toks = <<>> THEN <<>> ELSE FeedbackFrom(toks, mapped, 1)

(***************************************************************************)
(* Recognition orchestrator: _ocr_with_tokens and _score_ocr_result        *)
(*                                                                         *)
(* An engine answer to image_to_data is [kind, rows]: kind "error" when    *)
(* the call raises, else "data" with one row per entry of the returned     *)
(* dict.  A row's conf is -1 for the entries the engine gives no           *)
(* confidence.                                                             *)
(***************************************************************************)
Variants == <<"image", "preprocessed", "aggressive",
              "inv_image", "inv_preprocessed", "inv_aggressive">>
Configs == <<6, 4, 7, 8, 11, 12, 3, 13>>     \* the --psm of each config

NumAttempts == Len(Variants) * Len(Configs)
VariantOf(k) == Variants[((k - 1) \div Len(Configs)) + 1]
ConfigOf(k) == Configs[((k - 1) % Len(Configs)) + 1]

\* lines 325-342: the rows with a non-empty word and conf >= 0, in row order
TokensOf(rows) ==
    LET kept == SelectSeq(rows, LAMBDA r : Strip(r.text) # <<>> /\ r.conf >= 0)
    IN  [i \in 1..Len(kept) |->
           [word |-> Strip(kept[i].text), conf |-> kept[i].conf,
            bbox |-> Box(kept[i].left, kept[i].top, kept[i].width, kept[i].height),
            line_num |-> kept[i].line_num, block_num |-> kept[i].block_num,
            par_num |-> kept[i].par_num, word_num |-> kept[i].word_num]]

\* TokenBefore with the paragraph number left out of the key
TokenBeforeNoParagraph(a, b) ==
    \/ a.line_num < b.line_num
    \/ a.line_num = b.line_num /\ a.bbox[1] < b.bbox[1]

\* key (par_num, line_num, bbox[0]) of line 346
TokenBefore(a, b) ==
    \/ a.par_num < b.par_num
    \/ a.par_num = b.par_num /\ a.line_num < b.line_num
    \/ a.par_num = b.par_num /\ a.line_num = b.line_num /\ a.bbox[1] < b.bbox[1]

SameLine(a, b) == a.par_num = b.par_num /\ a.line_num = b.line_num

\* lines 347-360: the words of each run of tokens with the same (par, line)
RECURSIVE TextLinesFrom(_, _, _)
TextLinesFrom(ts, k, current_line) ==
    IF k > Len(ts)
    THEN (IF current_line # <<>> THEN <<Join(current_line, <<" ">>)>> ELSE <<>>)
    ELSE IF k > 1 /\ ~SameLine(ts[k], ts[k - 1])
         THEN <<Join(current_line, <<" ">>)>> \o TextLinesFrom(ts, k + 1, <<ts[k].word>>)
         ELSE TextLinesFrom(ts, k + 1, Append(current_line, ts[k].word))

\* line 361
ReconstructText(tokens_sorted) ==
    LET text_lines == TextLinesFrom(tokens_sorted, 1, <<>>)
        stripped == [i \in 1..Len(text_lines) |-> Strip(text_lines[i])]
    IN  Join(SelectSeq(stripped, LAMBDA ln : ln # <<>>), <<"\n">>)

HasAlpha(w) == \E i \in 1..Len(w) : IsAlpha(w[i])

\* _score_ocr_result for mean_conf = mc[1] / mc[2]:
\* 0.6 * (mean_conf / 100) + 0.3 * alpha_ratio + 0.1 * min(len / 100, 1)
ScoreOcrResult(txt, mc) ==
    LET words == Split(txt)
        nw == Len(words)
        na == Cardinality({i \in 1..nw : HasAlpha(words[i])})
    IN  IF txt = <<>> \/ nw = 0 THEN <<-1, 1>>
        ELSE <<6 * mc[1] * nw + 300 * na * mc[2] + Min(Len(txt), 100) * mc[2] * nw,
               1000 * mc[2] * nw>>

\* one attempt that returned data with at least one token (lines 345-363)
AttemptOf(toks) ==
    LET tokens_sorted == SortedBy(toks, TokenBefore)
        txt == ReconstructText(tokens_sorted)
        mean_conf == <<SumSeq([i \in 1..Len(toks) |-> toks[i].conf]), Max(1, Len(toks))>>
    IN  [text |-> txt, tokens |-> tokens_sorted, mean_conf |-> mean_conf,
         score |-> ScoreOcrResult(Replace(txt, <<"\n">>, <<" ">>), mean_conf)]

\* Better with the comparison dropped: the latest attempt with tokens is kept
LaterWins(score, best_score) == TRUE

\* Better with >= for >: among equal scores the latest attempt is kept
BetterOrEqual(score, best_score) == FracLe(best_score, score)

\* line 364: whether an attempt replaces the best one
Better(score, best_score) == FracLt(best_score, score)

\* the body of the loop of lines 316-367 for one engine answer
TryAttempt(b, answer) ==
    IF answer.kind = "error" THEN b
    ELSE IF TokensOf(answer.rows) = <<>> THEN b
    ELSE IF Better(AttemptOf(TokensOf(answer.rows)).score, b.score)
         THEN AttemptOf(TokensOf(answer.rows))
         ELSE b

\* best of line 314
InitialBest == [text |-> <<>>, tokens |-> <<>>, mean_conf |-> <<0, 1>>, score |-> <<-1, 1>>]

\* FallbackCalled with the test of line 370 left out
FallbackCalledAlways(b) == TRUE

\* whether _ocr_with_tokens calls image_to_string (line 370)
FallbackCalled(b) == b.text = <<>> \/ Len(b.tokens) = 0

\* lines 369-376: ans is the answer of image_to_string, [kind, text]
Fallback(b, ans) ==
    IF FallbackCalled(b)
    THEN IF ans.kind = "error" THEN b
         ELSE IF Strip(ans.text) # <<>> /\ Len(Strip(ans.text)) > Len(b.text)
              THEN [text |-> Strip(ans.text), tokens |-> <<>>, mean_conf |-> <<0, 1>>,
                    score |-> ScoreOcrResult(Strip(ans.text), <<50, 1>>)]
              ELSE b
    ELSE b

(***************************************************************************)
(* Text post-processing and confidence                                     *)
(***************************************************************************)
IsWordChar(c) == IsAlnum(c) \/ c = "_"

\* re.sub(r'\s+', ' ', ln)
RECURSIVE SquashSpaces(_, _)
SquashSpaces(s, i) ==
    IF i > Len(s) THEN <<>>
    ELSE IF IsSpace(s[i])
         THEN (IF i > 1 /\ IsSpace(s[i - 1]) THEN <<>> ELSE <<" ">>) \o SquashSpaces(s, i + 1)
         ELSE <<s[i]>> \o SquashSpaces(s, i + 1)

\* re.sub(r'\b1\b', 'I', text) for digit d and letter l
IsolatedToLetter(s, d, l) ==
    [i \in 1..Len(s) |->
       IF /\ s[i] = d
          /\ (i = 1 \/ ~IsWordChar(s[i - 1]))
          /\ (i = Len(s) \/ ~IsWordChar(s[i + 1]))
       THEN l ELSE s[i]]

RunEnd(s, i) ==
    CHOOSE j \in i..Len(s) :
       /\ \A k \in i..j : s[k] = s[i]
       /\ (j = Len(s) \/ s[j + 1] # s[i])

\* re.sub(r'(.)\1{3,}', r'\1', text): a run of four or more of one character
\* other than a newline becomes one character
RECURSIVE CollapseRuns(_, _)
CollapseRuns(s, i) ==
    IF i > Len(s) THEN <<>>
    ELSE IF s[i] # "\n" /\ RunEnd(s, i) - i + 1 >= 4
         THEN <<s[i]>> \o CollapseRuns(s, RunEnd(s, i) + 1)
         ELSE <<s[i]>> \o CollapseRuns(s, i + 1)

PostProcessText(txt) ==
    IF txt = <<>> THEN txt
    ELSE LET t1 == Replace(Replace(txt, <<"\r", "\n">>, <<"\n">>), <<"\r">>, <<"\n">>)
             raw == SplitOn(t1, "\n")
             lines == [i \in 1..Len(raw) |-> Strip(SquashSpaces(raw[i], 1))]
             t2 == Join(SelectSeq(lines, LAMBDA ln : ln # <<>>), <<"\n">>)
             t3 == Replace(Replace(Replace(Replace(t2, <<"r", "n">>, <<"m">>),
                       <<"c", "l">>, <<"d">>), <<"v", "v">>, <<"w">>), <<"i", "i">>, <<"n">>)
             t4 == IsolatedToLetter(IsolatedToLetter(t3, "1", "I"), "0", "O")
         IN  CollapseRuns(t4, 1)

\* _estimate_confidence, as a fraction
EstimateConfidence(txt) ==
    LET words == Split(txt)
        total == Len(txt)
        readable == Cardinality({i \in 1..total : IsAlnum(txt[i]) \/ IsSpace(txt[i])})
        valid == Cardinality({i \in 1..Len(words) :
                    Len(words[i]) >= 2 /\ \A j \in 1..Len(words[i]) : IsAlpha(words[i][j])})
        n == Max(1, Len(words))
        c == <<4 * total * n + 4 * readable * n
                 + (IF words # <<>> THEN 2 * valid * total ELSE 0),
               10 * total * n>>
        d == IF Len(Strip(txt)) < 3 THEN <<7 * c[1], 10 * c[2]>> ELSE c
    IN  IF Strip(txt) = <<>> THEN <<0, 1>>
        ELSE IF FracLt(<<1, 1>>, d) THEN <<1, 1>> ELSE d

(***************************************************************************)
(* Fallback text: _assemble_text_from_characters                           *)
(***************************************************************************)
LineTolerance == 18

\* |cy - yc| <= max(h, 18) for cy = y + h / 2 and the line centre yc = a fraction
NearLine(bbox, yc) ==
    Abs((2 * bbox[2] + bbox[4]) * yc[2] - 2 * yc[1])
        <= 2 * yc[2] * Max(bbox[4], LineTolerance)

\* lines 406-419: st = [lines, y_centers]
RECURSIVE GroupLines(_, _, _)
GroupLines(chars, k, st) ==
    IF k > Len(chars) THEN st.lines
    ELSE LET c == chars[k]
             hit == {idx \in 1..Len(st.lines) : NearLine(c.bbox, st.y_centers[idx])}
         IN  IF hit # {}
             THEN LET idx == CHOOSE i \in hit : \A j \in hit : i <= j
                      n == Len(st.lines[idx]) + 1
                      yc == st.y_centers[idx]
                  IN  GroupLines(chars, k + 1,
                        [lines |-> [st.lines EXCEPT ![idx] = Append(@, c)],
                         y_centers |-> [st.y_centers EXCEPT ![idx] =
                            <<2 * yc[1] * (n - 1) + (2 * c.bbox[2] + c.bbox[4]) * yc[2],
                              2 * yc[2] * n>>]])
             ELSE GroupLines(chars, k + 1,
                        [lines |-> Append(st.lines, <<c>>),
                         y_centers |-> Append(st.y_centers,
                                              <<2 * c.bbox[2] + c.bbox[4], 2>>)])

\* lines 424-433: the first candidate letter of each character, left to right
LineWord(line) ==
    LET line_sorted == SortedBy(line, LAMBDA a, b : a.bbox[1] < b.bbox[1])
        letters == [i \in 1..Len(line_sorted) |->
                      IF line_sorted[i].template_matches # <<>>
                      THEN line_sorted[i].template_matches[1].letter ELSE <<>>]
    IN  Strip(Join(letters, <<>>))

AssembleTextFromCharacters(chars) ==
    IF chars = <<>> THEN <<>>
    ELSE LET lines == GroupLines(SortedBy(chars, LAMBDA a, b : a.bbox[2] < b.bbox[2]), 1,
                                 [lines |-> <<>>, y_centers |-> <<>>])
             ordered == SortedBy(lines, LAMBDA a, b : a[1].bbox[2] < b[1].bbox[2])
             assembled == [i \in 1..Len(ordered) |-> LineWord(ordered[i])]
         IN  Join(SelectSeq(assembled, LAMBDA ln : ln # <<>>), <<"\n">>)

\* _analyze_basic_errors: the confusions found in the text, in dict order
Contains(s, sub) ==
    \E i \in 1..(Len(s) - Len(sub) + 1) : SubSeq(s, i, i + Len(sub) - 1) = sub

AnalyzeBasicErrors(txt) ==
    SelectSeq(<< <<"0">>, <<"1">>, <<"5">>, <<"8">>, <<"c", "l">>, <<"r", "n">>,
                 <<"v", "v">>, <<"i", "i">> >>,
              LAMBDA wrong : Contains(txt, wrong))

(***************************************************************************)
(* The content validator on its own                                        *)
(***************************************************************************)
ValidatorImages ==
    [width : {40, 99, 100, 640}, height : {40, 49, 50, 480},
     color_std : {3, 10, 40}, faces : {-1, 0, 1},
     edge_density : {5, 10, 300, 301}, skin_ratio : {0, 150, 151},
     cv_raises : BOOLEAN]

InitValidate ==
    /\ pc = "validate"
    /\ image \in ValidatorImages
    /\ content_validation = NoValue
    /\ engine = NoValue /\ tesseract_available = TRUE
    /\ attempt = 0 /\ best = NoValue /\ rival = NoValue
    /\ character_analysis = NoValue /\ text = <<>> /\ tokens = <<>>
    /\ mapping = <<>> /\ word_feedback = <<>>
    /\ result = NoValue /\ first_result = NoValue /\ calls = 0
    /\ ran = {} /\ disk = {}

Validate ==
    /\ pc = "validate"
    /\ content_validation' = ValidateImageContent(image)
    /\ pc' = "validated"
    /\ UNCHANGED <<image, engine, tesseract_available, attempt, best, rival,
                   character_analysis, text, tokens, mapping, word_feedback,
                   result, first_result, calls, ran, disk>>

SpecValidate == InitValidate /\ [][Validate]_vars

\* a 40x40 near-uniform image in which no face is detected
NearUniform40(img) ==
    /\ img.width = 40 /\ img.height = 40
    /\ img.faces <= 0 /\ img.color_std < StdFloor /\ ~img.cv_raises

\* C7 as stated: the validator answers a 40x40 near-uniform image with
\* is_handwriting = false and detected_type "uniform_color".
C7_UniformColorAt40 ==
    (pc = "validated" /\ NearUniform40(image))
        => /\ content_validation.is_handwriting = FALSE
           /\ content_validation.detected_type = "uniform_color"

\* C7 amended: the validator answers a 40x40 near-uniform image with
\* is_handwriting = false and detected_type "too_small", the size floor being
\* tested first; "uniform_color" is the answer to a near-uniform image with no
\* face that is at least 100 wide and 50 high.
C7_TooSmallAt40 ==
    /\ (pc = "validated" /\ NearUniform40(image))
          => /\ content_validation.is_handwriting = FALSE
             /\ content_validation.detected_type = "too_small"
    /\ (pc = "validated" /\ ~image.cv_raises /\ image.faces <= 0
          /\ image.color_std < StdFloor
          /\ image.width >= MinWidth /\ image.height >= MinHeight)
          => /\ content_validation.is_handwriting = FALSE
             /\ content_validation.detected_type = "uniform_color"

C7_Witness ==
    /\ pc = "validated" /\ NearUniform40(image)
    /\ content_validation.detected_type = "too_small"

(***************************************************************************)
(* The character segmenter on its own                                      *)
(***************************************************************************)
MaxRuns == 3

\* a box 10 high whose columns are runs of n columns with v ink pixels each
Runs == [n : {2, 7, 8}, v : {2, 8}]
RunSeqs == UNION {[1..k -> Runs] : k \in 1..MaxRuns}

RECURSIVE ColsOf(_)
ColsOf(rs) ==
    IF rs = <<>> THEN <<>>
    ELSE [i \in 1..Head(rs).n |-> Head(rs).v] \o ColsOf(Tail(rs))

Measured(raises) ==
    [raises |-> raises, analysis_raises |-> FALSE, perimeter |-> 40,
     circularity |-> 400, loops |-> FALSE, curves |-> TRUE, strokes |-> 1]

GlyphRows(letter, conf) ==
    [kind |-> "rows", rows |-> <<[text |-> <<letter>>, conf |-> conf]>>]

RunContours ==
    {c \in {[area |-> a, x |-> 2, y |-> 2, w |-> Len(ColsOf(rs)), h |-> 10,
             cols |-> ColsOf(rs), feat |-> Measured(r),
             glyph |-> GlyphRows("a", 90)] :
               rs \in RunSeqs, a \in {10, 25, 60}, r \in BOOLEAN} :
        c.area <= SumSeq(c.cols)}

\* a flat dash (too low) and a round letter, elsewhere on the page
OtherContours ==
    {[area |-> 30, x |-> 4, y |-> 15, w |-> 12, h |-> 3,
      cols |-> [i \in 1..12 |-> 3], feat |-> Measured(FALSE),
      glyph |-> [kind |-> "engine_error", rows |-> <<>>]],
     [area |-> 50, x |-> 20, y |-> 14, w |-> 8, h |-> 9,
      cols |-> [i \in 1..8 |-> 6],
      feat |-> [raises |-> FALSE, analysis_raises |-> FALSE, perimeter |-> 30, circularity |-> 700,
                loops |-> FALSE, curves |-> TRUE, strokes |-> 3],
      glyph |-> GlyphRows("O", 40)],
     \* a crop on which classification raises outside the engine call
     [area |-> 40, x |-> 6, y |-> 16, w |-> 8, h |-> 8,
      cols |-> [i \in 1..8 |-> 5], feat |-> Measured(FALSE),
      glyph |-> [kind |-> "crash", rows |-> <<>>]],
     \* a broken letter on which the error analysis raises
     [area |-> 45, x |-> 22, y |-> 4, w |-> 8, h |-> 9,
      cols |-> [i \in 1..8 |-> 5],
      feat |-> [raises |-> FALSE, analysis_raises |-> TRUE, perimeter |-> 30,
                circularity |-> 700, loops |-> FALSE, curves |-> TRUE,
                strokes |-> 3],
      glyph |-> GlyphRows("e", 70)],
     \* a dot in the concavity of the first contour: its bounding rectangle
     \* lies within the bounding rectangle of that contour
     [area |-> 22, x |-> 4, y |-> 4, w |-> 5, h |-> 5,
      cols |-> [i \in 1..5 |-> 5], feat |-> Measured(FALSE),
      glyph |-> GlyphRows("i", 60)]}

PageSizes == {<<36, 27>>, <<640, 480>>}

SegImages ==
    {[width |-> sz[1], height |-> sz[2], contours |-> cs, load_fails |-> FALSE,
      overlay_ok |-> TRUE] :
        sz \in PageSizes,
        cs \in {<<c>> : c \in RunContours}
               \cup {<<c, o>> : c \in RunContours, o \in OtherContours}}
    \cup {[width |-> 640, height |-> 480, contours |-> <<>>, load_fails |-> lf,
           overlay_ok |-> ok] : lf \in BOOLEAN, ok \in BOOLEAN}

\* _analyze_characters: the dict it returns
CharacterAnalysis(lib, img) ==
    IF img.load_fails
    THEN [characters |-> <<>>, error |-> "Could not load image"]
    ELSE [characters |-> AnalyzeCharacters(lib, img),
          total_found |-> Len(AnalyzeCharacters(lib, img)),
          visual_overlay_path |-> IF img.overlay_ok THEN "overlay" ELSE "Error"]

\* the file _generate_visual_overlay writes beside the image
OverlayWritten(img) ==
    IF ~img.load_fails /\ img.overlay_ok THEN {"overlay"} ELSE {}

InitSegment ==
    /\ pc = "segment"
    /\ image \in SegImages
    /\ tesseract_available \in BOOLEAN
    /\ character_analysis = NoValue
    /\ engine = NoValue /\ content_validation = NoValue
    /\ attempt = 0 /\ best = NoValue /\ rival = NoValue
    /\ text = <<>> /\ tokens = <<>>
    /\ mapping = <<>> /\ word_feedback = <<>>
    /\ result = NoValue /\ first_result = NoValue /\ calls = 0
    /\ ran = {} /\ disk = {"image"}

Segment ==
    /\ pc = "segment"
    /\ character_analysis' = CharacterAnalysis(tesseract_available, image)
    /\ disk' = disk \cup OverlayWritten(image)
    /\ pc' = "segmented"
    /\ UNCHANGED <<image, engine, tesseract_available, content_validation,
                   attempt, best, rival, text, tokens, mapping, word_feedback,
                   result, first_result, calls, ran>>

SpecSegment == InitSegment /\ [][Segment]_vars

Regions == character_analysis.characters

InRange(a, img) == min_area(img) <= a /\ a <= max_area(img)

\* C8 as stated: every character region has bbox width >= 5, bbox height >= 5
\* and an area within [min_area, max_area], the regions with the default
\* feature set included.
C8_RegionAreaInRange ==
    pc = "segmented" =>
        \A k \in 1..Len(Regions) :
            /\ Regions[k].bbox[3] >= 5 /\ Regions[k].bbox[4] >= 5
            /\ InRange(Regions[k].features.area, image)

BoxInside(b, c) ==
    /\ c.x <= b[1] /\ b[1] + b[3] <= c.x + c.w
    /\ c.y <= b[2] /\ b[2] + b[4] <= c.y + c.h

\* C8 amended: every character region has bbox width >= 5 and bbox height >= 5
\* and is cut from a contour whose contour area is within [min_area, max_area];
\* the area the region records is that contour area, except that a region whose
\* feature extraction fell back to the default feature set records area 100,
\* which may lie outside the range.
C8_RegionFromContourInRange ==
    pc = "segmented" =>
        \A k \in 1..Len(Regions) :
            /\ Regions[k].bbox[3] >= 5 /\ Regions[k].bbox[4] >= 5
            /\ \E i \in 1..Len(image.contours) :
                  /\ InRange(image.contours[i].area, image)
                  /\ BoxInside(Regions[k].bbox, image.contours[i])
                  /\ Regions[k].features.area =
                        IF "perimeter" \in DOMAIN Regions[k].features
                        THEN image.contours[i].area ELSE DefaultArea

\* a split slice and a default-feature region outside the range both occur
C8_Witness ==
    /\ pc = "segmented"
    /\ \E k \in 1..Len(Regions) :
          /\ "perimeter" \notin DOMAIN Regions[k].features
          /\ ~InRange(Regions[k].features.area, image)
    /\ \E k \in 1..Len(Regions) : Regions[k].bbox[3] < image.contours[1].w

\* a box of width:height 2.2 over two letters: two runs of ink columns, each
\* wider than the minimum slice width, with one valley of thinner columns between
TwoLetterBlob(c) ==
    /\ 10 * c.w = 22 * c.h
    /\ \E a, b \in 1..c.w :
          /\ a > MinSliceWidth /\ a < b /\ c.w - b > MinSliceWidth
          /\ \A i \in 1..c.w :
                \A j \in (a + 1)..b :
                    (i <= a \/ i > b) => c.cols[j] < c.cols[i]

\* C9 as stated: a merged component of width:height 2.2 over two letters with
\* one valley between them is split into exactly 2 character regions.
C9_BlobSplitInTwo ==
    (pc = "segmented" /\ Len(image.contours) = 1
        /\ Accepted(image, image.contours[1]) /\ TwoLetterBlob(image.contours[1]))
        => Len(Regions) = 2

(***************************************************************************)
(* The word mapper and the feedback synthesizer on their own               *)
(***************************************************************************)
MaxChars == 2
MaxTokens == 2

AnIssue == Issue("broken_stroke", "Character has disconnected parts",
                 "Write with continuous, connected strokes")

CurveIssue == Issue("incomplete_curve", "Curve appears incomplete or irregular",
                    "Practice smooth, continuous curves")

\* regions inside the first word, between the words, in both word boxes where
\* they overlap, on the second line, and between the lines to the right of the
\* second line's word; clean, flagged once with a strong candidate letter, or
\* flagged twice with a weak one
MapRegions ==
    {[bbox |-> b, features |-> DefaultFeatures, template_matches |-> k.m,
      errors |-> k.e] :
        b \in {Box(12, 12, 8, 10), Box(38, 12, 6, 10), Box(46, 12, 8, 10),
               Box(12, 40, 8, 10), Box(48, 30, 8, 10)},
        k \in {[m |-> <<>>, e |-> <<>>],
               [m |-> <<Match(<<"a">>, <<90, 100>>, "OCR recognition")>>, e |-> <<AnIssue>>],
               [m |-> <<Match(<<"c">>, <<30, 100>>, "OCR recognition")>>,
                e |-> <<CurveIssue, AnIssue>>]}}

Token(word, bbox, line) ==
    [word |-> word, conf |-> 90, bbox |-> bbox, line_num |-> line,
     block_num |-> 1, par_num |-> 1, word_num |-> 1]

MapTokens ==
    {Token(<<"c", "a", "t">>, Box(10, 10, 30, 14), 1),
     Token(<<"a", "t">>, Box(36, 10, 24, 14), 1),
     Token(<<"t", "e", "h">>, Box(10, 38, 30, 14), 2)}

SeqsUpTo(S, n) == UNION {[1..k -> S] : k \in 0..n}

\* the regions as _analyze_characters numbers them
Numbered(rs) ==
    [k \in 1..Len(rs) |->
       [id |-> k - 1, bbox |-> rs[k].bbox, features |-> rs[k].features,
        template_matches |-> rs[k].template_matches, errors |-> rs[k].errors]]

InitMap ==
    /\ pc = "map"
    /\ \E rs \in SeqsUpTo(MapRegions, MaxChars) :
          character_analysis = [characters |-> Numbered(rs), total_found |-> Len(rs),
                                visual_overlay_path |-> "overlay"]
    /\ tokens \in SeqsUpTo(MapTokens, MaxTokens)
    /\ mapping = <<>> /\ word_feedback = <<>>
    /\ image = NoValue /\ engine = NoValue /\ tesseract_available = TRUE
    /\ content_validation = NoValue
    /\ attempt = 0 /\ best = NoValue /\ rival = NoValue
    /\ text = <<>>
    /\ result = NoValue /\ first_result = NoValue /\ calls = 0
    /\ ran = {} /\ disk = {}

MapCharacters ==
    /\ pc = "map"
    /\ mapping' = MapCharactersToWords(character_analysis.characters, tokens)
    /\ tokens' = TokensAfterMapping(character_analysis.characters, tokens)
    /\ pc' = "feedback"
    /\ UNCHANGED <<image, engine, tesseract_available, content_validation,
                   attempt, best, rival, character_analysis, text,
                   word_feedback, result, first_result, calls, ran, disk>>

BuildFeedback ==
    /\ pc = "feedback"
    /\ word_feedback' = BuildWordFeedback(tokens, mapping)
    /\ pc' = "fed_back"
    /\ UNCHANGED <<image, engine, tesseract_available, content_validation,
                   attempt, best, rival, character_analysis, text, tokens,
                   mapping, result, first_result, calls, ran, disk>>

SpecMap == InitMap /\ [][MapCharacters \/ BuildFeedback]_vars

Count(S) == Cardinality(S)

\* C10: in the output of word mapping every character region appears at most
\* once, so under at most one word index: no bbox is mapped more often than
\* there are regions with that bbox, and the mapped regions summed over all
\* words are at most total_found.
C10_RegionMappedAtMostOnce ==
    pc \in {"feedback", "fed_back"} =>
        /\ \A i \in 1..Len(mapping) :
              Count({j \in 1..Len(mapping) : mapping[j].char_bbox = mapping[i].char_bbox})
                 <= Count({k \in 1..Len(character_analysis.characters) :
                              character_analysis.characters[k].bbox = mapping[i].char_bbox})
        /\ SumSeq([wi \in 1..Len(tokens) |->
                     Count({j \in 1..Len(mapping) : mapping[j].word_index = wi - 1})])
              <= character_analysis.total_found
        /\ \A j \in 1..Len(mapping) :
              mapping[j].word_index \in 0..(Len(tokens) - 1)

\* a region whose centre lies in two word boxes is mapped, beside another one
C10_Witness ==
    /\ pc = "fed_back"
    /\ Len(mapping) = 2
    /\ \E j \in 1..Len(mapping) :
          Count({wi \in 1..Len(tokens) :
                    ContainsCenter(tokens[wi], Center2(mapping[j].char_bbox))}) = 2

(***************************************************************************)
(* The attempt loop of _ocr_with_tokens, one image_to_data call at a time, *)
(* against an engine that may answer each call with anything               *)
(***************************************************************************)
Row(word, conf, left, top, line) ==
    [text |-> word, conf |-> conf, left |-> left, top |-> top, width |-> 30,
     height |-> 14, line_num |-> line, block_num |-> 1, par_num |-> 1,
     word_num |-> 1]

\* the row the engine reports for a block: no text and no confidence
BlockRow == Row(<<>>, -1, 0, 0, 0)

Data(rows) == [kind |-> "data", rows |-> rows]
EngineError == [kind |-> "error", rows |-> <<>>]

RowsTehCat == <<BlockRow, Row(<<"t", "e", "h">>, 80, 10, 10, 1),
                Row(<<"c", "a", "t">>, 90, 46, 10, 1)>>
RowsCatTeh == <<BlockRow, Row(<<"c", "a", "t">>, 90, 46, 10, 1),
                Row(<<" ", "t", "e", "h">>, 80, 10, 10, 1)>>
RowsDigits == <<Row(<<"1">>, 30, 10, 10, 1), Row(<<"0", "5">>, 20, 10, 38, 2)>>
RowsBlank == <<BlockRow, Row(<<" ">>, 95, 10, 10, 1)>>

\* what image_to_data may answer: an exception or a dict of rows
Answers == {EngineError, Data(<<>>), Data(RowsBlank), Data(RowsTehCat),
            Data(RowsCatTeh), Data(RowsDigits)}

\* what image_to_string may answer: an exception or a string
StringAnswers ==
    {[kind |-> "error", text |-> <<>>],
     [kind |-> "text", text |-> <<>>],
     [kind |-> "text", text |-> <<" ", "c", "a", "t", "\n">>]}

ProducesTokens(answer) == answer.kind = "data" /\ TokensOf(answer.rows) # <<>>

InitSelect ==
    /\ pc = "attempts"
    /\ attempt = 0
    /\ best = InitialBest
    /\ rival = NoValue
    /\ tesseract_available = TRUE
    /\ image = NoValue /\ engine = NoValue /\ content_validation = NoValue
    /\ character_analysis = NoValue
    /\ text = <<>> /\ tokens = <<>> /\ mapping = <<>> /\ word_feedback = <<>>
    /\ result = NoValue /\ first_result = NoValue /\ calls = 0
    /\ ran = {} /\ disk = {"image"}

\* one pass of the inner loop; rival remembers, or not, the score of an
\* attempt that produced tokens
TryNext ==
    /\ pc = "attempts"
    /\ attempt < NumAttempts
    /\ \E answer \in Answers :
          /\ best' = TryAttempt(best, answer)
          /\ \/ rival' = rival
             \/ /\ ProducesTokens(answer)
                /\ rival' = [score |-> AttemptOf(TokensOf(answer.rows)).score]
    /\ attempt' = attempt + 1
    /\ UNCHANGED <<pc, image, engine, tesseract_available, content_validation,
                   character_analysis, text, tokens, mapping, word_feedback,
                   result, first_result, calls, ran, disk>>

\* lines 369-378: the fallback and the return
SelectFallback ==
    /\ pc = "attempts"
    /\ attempt = NumAttempts
    /\ \E ans \in StringAnswers : best' = Fallback(best, ans)
    /\ pc' = "selected"
    /\ UNCHANGED <<image, engine, tesseract_available, content_validation,
                   attempt, rival, character_analysis, text, tokens, mapping,
                   word_feedback, result, first_result, calls, ran, disk>>

SpecSelect == InitSelect /\ [][TryNext \/ SelectFallback]_vars

\* C2: once every (image variant, segmentation mode) attempt of a call has
\* been evaluated, the retained best attempt scores at least as much as any
\* attempt that produced a token, and it is itself an attempt with tokens.
C2_BestScoreIsMaximal ==
    (attempt = NumAttempts /\ "score" \in DOMAIN rival) =>
        /\ FracLe(rival.score, best.score)
        /\ best.tokens # <<>>

\* all attempts done, and an attempt with tokens scored strictly less than
\* the one retained
C2_Witness ==
    /\ pc = "selected"
    /\ "score" \in DOMAIN rival
    /\ FracLt(rival.score, best.score)
    /\ FracLt(<<0, 1>>, rival.score)

(***************************************************************************)
(* recognize_handwriting, stage by stage, called repeatedly on one image   *)
(* by one processor against one engine                                     *)
(***************************************************************************)
MaxCalls == 2

\* The engine answers a request by its class only: the plain page modes, the
\* sparse-text modes (--psm 11 and 12), any mode on an inverted variant, and
\* image_to_string.  broken is an engine whose every call raises (the
\* tesseract binary is missing or misconfigured).
Engines ==
    [broken : {FALSE},
     plain : Answers,
     sparse : {Data(<<>>), Data(RowsDigits)},
     inverted : {EngineError, Data(<<>>), Data(RowsTehCat)},
     string : StringAnswers]
    \cup {[broken |-> TRUE, plain |-> EngineError, sparse |-> EngineError,
           inverted |-> EngineError, string |-> [kind |-> "error", text |-> <<>>]]}

Inverted(k) == VariantOf(k) \in {"inv_image", "inv_preprocessed", "inv_aggressive"}

\* the answer to the k-th image_to_data call of _ocr_with_tokens
EngineAnswer(eng, k) ==
    IF eng.broken THEN EngineError
    ELSE IF Inverted(k) THEN eng.inverted
    ELSE IF ConfigOf(k) \in {11, 12} THEN eng.sparse
    ELSE eng.plain

\* a letter-sized contour at (x, y) that the engine reads as letter
LetterContour(x, y, letter, strokes) ==
    [area |-> 50, x |-> x, y |-> y, w |-> 8, h |-> 10,
     cols |-> [i \in 1..8 |-> 6],
     feat |-> [raises |-> FALSE, analysis_raises |-> FALSE, perimeter |-> 30, circularity |-> 400,
               loops |-> FALSE, curves |-> TRUE, strokes |-> strokes],
     glyph |-> GlyphRows(letter, 90)]

\* the file at image_path: how the path resolves, what the validator
\* measures, what the segmenter finds
Page(kind, w, h, std, faces, cv, cs, ok) ==
    [path_kind |-> kind, width |-> w, height |-> h, color_std |-> std,
     faces |-> faces, edge_density |-> 100, skin_ratio |-> 0, cv_raises |-> cv,
     contours |-> cs, load_fails |-> cv, overlay_ok |-> ok,
     exhausts_memory |-> FALSE]

\* a valid page of 12000 x 12000 pixels whose pixel buffer cannot be allocated
HugePage ==
    [Page("ok", 12000, 12000, 40, 0, TRUE, <<>>, TRUE) EXCEPT !.exhausts_memory = TRUE]

\* one letter 200 wide and 240 high, drawn with a thick pen: the outline
\* encloses 40000 pixels
BigLetter ==
    [area |-> 40000, x |-> 220, y |-> 120, w |-> 200, h |-> 240,
     cols |-> [i \in 1..200 |-> 200],
     feat |-> [raises |-> FALSE, analysis_raises |-> FALSE, perimeter |-> 900, circularity |-> 600,
               loops |-> TRUE, curves |-> TRUE, strokes |-> 1],
     glyph |-> GlyphRows("a", 90)]

TwoLetters == <<LetterContour(12, 12, "c", 3), LetterContour(50, 12, "I", 1)>>

RecImages ==
    {Page("ok", 640, 480, 40, f, FALSE, cs, ok) :
        f \in {0, 1}, cs \in {<<>>, TwoLetters}, ok \in BOOLEAN}
    \cup {Page("ok", 40, 40, 3, 0, FALSE, <<>>, TRUE),
          Page("ok", 640, 480, 40, 0, TRUE, <<>>, TRUE)}
    \cup {Page("ok", 640, 480, 40, 0, FALSE, <<c>>, TRUE) :
            c \in {LetterContour(300, 200, "a", 1), BigLetter}}
    \cup {Page(k, 640, 480, 40, 0, k = "truncated", TwoLetters, TRUE) :
            k \in {"none", "missing", "unidentified", "truncated"}}
    \cup {HugePage}

\* line 21
PathInvalid(img) == img.path_kind = "none"
\* line 41
FileExists(img, files) == img.path_kind # "missing" /\ "image" \in files
\* Image.open raises on a file it cannot identify (line 53)
OpenNeverRaises(img) == FALSE
OpenRaises(img) == img.path_kind = "unidentified"
\* Image.open reads the header only: a truncated file raises when a
\* preprocessor first loads the pixels (lines 306-310)
LoadRaises(img) == img.path_kind = "truncated" \/ img.exhausts_memory

\* str(e) of line 135 for the exception of the load: the OSError of a
\* truncated file has a message, the MemoryError of a failed allocation none
LoadError(img) == IF img.exhausts_memory THEN "" ELSE "image file is truncated"

\* the engine as the character segmenter meets it
GlyphSeen(eng, c) ==
    [g \in DOMAIN c |->
       IF g = "glyph" /\ eng.broken
       THEN [kind |-> "engine_error", rows |-> <<>>] ELSE c[g]]

Seen(eng, img) ==
    [g \in DOMAIN img |->
       IF g = "contours"
       THEN [i \in 1..Len(img.contours) |-> GlyphSeen(eng, img.contours[i])]
       ELSE img[g]]

ErrorResult(msg) ==
    [success |-> FALSE, error |-> msg, recognized_text |-> <<>>,
     confidence |-> <<0, 1>>, character_analysis |-> [characters |-> <<>>]]

\* lines 129-130
WithoutWarning(r, v) == r
WithWarning(r, v) ==
    IF ~v.is_handwriting /\ v.message # ""
    THEN [g \in DOMAIN r \cup {"validation_warning"} |->
            IF g = "validation_warning" THEN v.message ELSE r[g]]
    ELSE r

\* lines 95-106: the words overlay and the path reported for it
WordsOverlayWritten(img) ==
    IF ~img.load_fails /\ img.overlay_ok THEN {"overlay_words"} ELSE {}
WordsOverlayPath(img) ==
    IF WordsOverlayWritten(img) # {} THEN "overlay_words" ELSE ""

LinesEstimated(toks) ==
    IF toks = <<>> THEN 1
    ELSE CHOOSE n \in {toks[i].line_num : i \in 1..Len(toks)} :
            \A i \in 1..Len(toks) : toks[i].line_num <= n

\* lines 108-130; image_analysis, a measurement of the pixels alone, is left out
SuccessResult(txt, toks, ca, wf, overlay, v) ==
    WithWarning(
      [success |-> TRUE, recognized_text |-> txt,
       confidence |-> EstimateConfidence(txt),
       errors |-> AnalyzeBasicErrors(txt),
       character_analysis |-> ca, tokens |-> toks, word_feedback |-> wf,
       summary |-> [content_type |-> "handwriting",
                    lines_estimated |-> LinesEstimated(toks),
                    text_summary |-> SubSeq(txt, 1, Min(120, Len(txt)))],
       visual_overlay_path |-> overlay], v)

InitRecognize ==
    /\ pc = "idle"
    /\ image \in RecImages
    /\ engine \in Engines
    /\ tesseract_available \in BOOLEAN
    /\ ~tesseract_available => engine.broken
    /\ disk = IF image.path_kind \in {"none", "missing"} THEN {} ELSE {"image"}
    /\ content_validation = NoValue /\ character_analysis = NoValue
    /\ attempt = 0 /\ best = NoValue /\ rival = NoValue
    /\ text = <<>> /\ tokens = <<>> /\ mapping = <<>> /\ word_feedback = <<>>
    /\ result = NoValue /\ first_result = NoValue /\ calls = 0
    /\ ran = {}

\* return r to the caller
Return(r) ==
    /\ result' = r
    /\ first_result' = IF calls = 0 THEN r ELSE first_result
    /\ calls' = calls + 1
    /\ pc' = "idle"

\* lines 20-61: the checks before any stage runs
R_Begin ==
    /\ pc = "idle"
    /\ calls < MaxCalls
    /\ ran' = {}
    /\ IF PathInvalid(image) THEN Return(ErrorResult("Invalid image path"))
       ELSE IF ~tesseract_available THEN Return(ErrorResult("Tesseract not available"))
       ELSE IF ~FileExists(image, disk) THEN Return(ErrorResult("Image file not found"))
       ELSE IF OpenRaises(image) THEN Return(ErrorResult("cannot identify image file"))
       ELSE pc' = "validate" /\ UNCHANGED <<result, first_result, calls>>
    /\ UNCHANGED <<image, engine, tesseract_available, content_validation,
                   attempt, best, rival, character_analysis, text, tokens,
                   mapping, word_feedback, disk>>

\* lines 63-68
R_Validate ==
    /\ pc = "validate"
    /\ content_validation' = ValidateImageContent(image)
    /\ ran' = ran \cup {"validate"}
    /\ pc' = "ocr"
    /\ UNCHANGED <<image, engine, tesseract_available, attempt, best, rival,
                   character_analysis, text, tokens, mapping, word_feedback,
                   result, first_result, calls, disk>>

\* _ocr_with_tokens up to the loop (lines 278-314); an exception of a
\* preprocessor reaches the handler of line 132
R_OcrBegin ==
    /\ pc = "ocr"
    /\ IF ~tesseract_available
       THEN /\ text' = <<>> /\ tokens' = <<>>
            /\ pc' = "analyze"
            /\ UNCHANGED <<attempt, best, result, first_result, calls>>
       ELSE IF LoadRaises(image)
       THEN /\ Return(ErrorResult(LoadError(image)))
            /\ UNCHANGED <<attempt, best, text, tokens>>
       ELSE /\ best' = InitialBest
            /\ attempt' = 0
            /\ pc' = "attempts"
            /\ UNCHANGED <<text, tokens, result, first_result, calls>>
    /\ UNCHANGED <<image, engine, tesseract_available, content_validation,
                   rival, character_analysis, mapping, word_feedback, ran, disk>>

\* one pass of the loop of lines 316-367
R_Attempt ==
    /\ pc = "attempts"
    /\ attempt < NumAttempts
    /\ best' = TryAttempt(best, EngineAnswer(engine, attempt + 1))
    /\ attempt' = attempt + 1
    /\ ran' = ran \cup {"attempt"}
    /\ UNCHANGED <<pc, image, engine, tesseract_available, content_validation,
                   rival, character_analysis, text, tokens, mapping,
                   word_feedback, result, first_result, calls, disk>>

\* lines 369-378 and 71-73
R_OcrEnd ==
    /\ pc = "attempts"
    /\ attempt = NumAttempts
    /\ best' = Fallback(best, engine.string)
    /\ text' = best'.text
    /\ tokens' = best'.tokens
    /\ ran' = ran \cup (IF FallbackCalled(best) THEN {"string"} ELSE {})
    /\ pc' = "analyze"
    /\ UNCHANGED <<image, engine, tesseract_available, content_validation,
                   attempt, rival, character_analysis, mapping, word_feedback,
                   result, first_result, calls, disk>>

\* lines 75-76
R_Analyze ==
    /\ pc = "analyze"
    /\ character_analysis' = CharacterAnalysis(tesseract_available, Seen(engine, image))
    /\ disk' = disk \cup OverlayWritten(image)
    /\ ran' = ran \cup {"segment"}
                  \cup (IF image.load_fails THEN {} ELSE {"overlay"})
    /\ pc' = "assemble"
    /\ UNCHANGED <<image, engine, tesseract_available, content_validation,
                   attempt, best, rival, text, tokens, mapping, word_feedback,
                   result, first_result, calls>>

\* lines 78-85
R_Assemble ==
    /\ pc = "assemble"
    /\ text' = IF Strip(text) = <<>> /\ character_analysis.characters # <<>>
                  /\ AssembleTextFromCharacters(character_analysis.characters) # <<>>
               THEN AssembleTextFromCharacters(character_analysis.characters)
               ELSE text
    /\ ran' = ran \cup (IF text' # text THEN {"assembled"} ELSE {})
    /\ pc' = "map"
    /\ UNCHANGED <<image, engine, tesseract_available, content_validation,
                   attempt, best, rival, character_analysis, tokens, mapping,
                   word_feedback, result, first_result, calls, disk>>

\* lines 87-89
R_Map ==
    /\ pc = "map"
    /\ mapping' = MapCharactersToWords(character_analysis.characters, tokens)
    /\ tokens' = TokensAfterMapping(character_analysis.characters, tokens)
    /\ word_feedback' = BuildWordFeedback(tokens', mapping')
    /\ ran' = ran \cup {"map", "feedback"}
    /\ pc' = "finish"
    /\ UNCHANGED <<image, engine, tesseract_available, content_validation,
                   attempt, best, rival, character_analysis, text, result,
                   first_result, calls, disk>>

\* lines 91-130
R_Finish ==
    /\ pc = "finish"
    /\ text' = IF text # <<>> THEN PostProcessText(text) ELSE text
    /\ disk' = disk \cup WordsOverlayWritten(image)
    /\ ran' = ran \cup {"overlay"}
    /\ Return(SuccessResult(text', tokens, character_analysis, word_feedback,
                            WordsOverlayPath(image), content_validation))
    /\ UNCHANGED <<image, engine, tesseract_available, content_validation,
                   attempt, best, rival, character_analysis, tokens, mapping,
                   word_feedback>>

NextRecognize ==
    \/ R_Begin \/ R_Validate \/ R_OcrBegin \/ R_Attempt \/ R_OcrEnd
    \/ R_Analyze \/ R_Assemble \/ R_Map \/ R_Finish

SpecRecognize == InitRecognize /\ [][NextRecognize]_vars

Returned == pc = "idle" /\ calls >= 1
ValidImage == image.path_kind = "ok"
LaterStages == {"attempt", "segment", "overlay", "map", "feedback"}

SameField(r1, r2, g) ==
    /\ (g \in DOMAIN r1) = (g \in DOMAIN r2)
    /\ g \in DOMAIN r1 => r1[g] = r2[g]

\* C1: for an image file that exists and decodes, recognize returns
\* success=true and a confidence within [0, 1], whatever the engine answers
\* to the individual attempts.
C1_ValidImageSucceeds ==
    (Returned /\ ValidImage) =>
        /\ result.success
        /\ FracLe(<<0, 1>>, result.confidence)
        /\ FracLe(result.confidence, <<1, 1>>)

\* C3: a later recognize call on the same image against the same engine
\* returns the recognized_text and the word_feedback of the first call.
C3_SameImageSameAnswer ==
    (pc = "idle" /\ calls >= 2) =>
        /\ SameField(result, first_result, "recognized_text")
        /\ SameField(result, first_result, "word_feedback")

\* two full calls, the first of which left its overlays on disk, with a word
\* that carries an issue
C3_Witness ==
    /\ pc = "idle" /\ calls = 2
    /\ result.success
    /\ result.recognized_text # <<>>
    /\ {"overlay", "overlay_words"} \subseteq disk
    /\ \E i \in 1..Len(result.word_feedback) :
          result.word_feedback[i].issues # <<>>

\* C4: with a path that is missing, names no file, or names a file that does
\* not decode, no recognition attempt, segmentation, mapping, feedback or
\* overlay stage ever runs and no overlay is written, and the call returns
\* success=false with an error message.
C4_BadPathFailsFast ==
    ~ValidImage =>
        /\ ran \cap LaterStages = {}
        /\ disk \cap {"overlay", "overlay_words"} = {}
        /\ Returned => /\ ~result.success
                       /\ "error" \in DOMAIN result
                       /\ result.error # ""

\* a file whose header opens but whose pixels do not load: the validator ran,
\* nothing after it did
C4_Witness ==
    /\ Returned
    /\ image.path_kind = "truncated"
    /\ ran = {"validate"}
    /\ ~result.success

C6_ValidatorIsAdvisory ==
    (Returned /\ "validate" \in ran /\ ~content_validation.is_handwriting) =>
        /\ {"attempt", "segment", "map", "feedback"} \subseteq ran
        /\ result.success
        /\ "validation_warning" \in DOMAIN result
        /\ result.validation_warning = content_validation.message

\* a page with a face on it and two letters, recognized and segmented
C6_Witness ==
    /\ Returned
    /\ "validate" \in ran
    /\ ~content_validation.is_handwriting
    /\ result.success
    /\ result.recognized_text # <<>>
    /\ Len(result.character_analysis.characters) = 2
    /\ "validation_warning" \in DOMAIN result

(***************************************************************************)
(* Properties of the feedback synthesizer, on the word mapper's output     *)
(***************************************************************************)
\* C11: in every word_feedback entry the issues are ordered so that
\* char_index never decreases from one issue to the next.
C11_IssuesOrderedByCharIndex ==
    pc = "fed_back" =>
        \A e \in 1..Len(word_feedback) :
           \A i \in 1..(Len(word_feedback[e].issues) - 1) :
              word_feedback[e].issues[i].char_index
                 <= word_feedback[e].issues[i + 1].char_index

\* one word with two flagged characters, found right-to-left by the segmenter
C11_Witness ==
    /\ pc = "fed_back"
    /\ Len(character_analysis.characters) = 2
    /\ character_analysis.characters[1].bbox[1] > character_analysis.characters[2].bbox[1]
    /\ \E e \in 1..Len(word_feedback) :
          /\ Len(word_feedback[e].issues) = 2
          /\ word_feedback[e].issues[1].char_index < word_feedback[e].issues[2].char_index

\* C12: a word_feedback entry exists for a word index exactly when a region
\* mapped to that word has a non-empty error list; every entry's word_index
\* is an index into the token list; entries come in increasing word_index
\* order, no index twice.
C12_EntryIffWordHasIssue ==
    pc = "fed_back" =>
        /\ \A wi \in 0..(Len(tokens) - 1) :
              (\E e \in 1..Len(word_feedback) : word_feedback[e].word_index = wi)
                 <=> (\E j \in 1..Len(mapping) :
                         mapping[j].word_index = wi /\ mapping[j].errors # <<>>)
        /\ \A e \in 1..Len(word_feedback) :
              word_feedback[e].word_index \in 0..(Len(tokens) - 1)
        /\ \A e \in 1..(Len(word_feedback) - 1) :
              word_feedback[e].word_index < word_feedback[e + 1].word_index

\* two words, both with a region mapped to them, only the second with an issue
C12_Witness ==
    /\ pc = "fed_back"
    /\ Len(tokens) = 2
    /\ Len(word_feedback) = 1
    /\ word_feedback[1].word_index = 1
    /\ \E j \in 1..Len(mapping) : mapping[j].word_index = 0 /\ mapping[j].errors = <<>>

(***************************************************************************)
(* Properties of recognize_handwriting: fallback text, token frame         *)
(***************************************************************************)
\* the page holds one contour and the engine reads its crop as a letter
OneLegibleLetter(img) ==
    /\ Len(img.contours) = 1
    /\ img.contours[1].glyph.kind = "rows"
    /\ GlyphMatches(img.contours[1].glyph.rows) # <<>>

\* every image_to_data call answers, with no token
NoTokensEver(eng) ==
    /\ ~eng.broken
    /\ \A a \in {eng.plain, eng.sparse, eng.inverted} :
          a.kind = "data" /\ TokensOf(a.rows) = <<>>

\* C13: when the engine returns zero tokens on every attempt for an image
\* holding one legible large letter, the result of recognize has a non-empty
\* recognized_text, assembled from the segmented characters.
C13_LargeLetterAssembled ==
    (Returned /\ ValidImage /\ tesseract_available
       /\ OneLegibleLetter(image) /\ NoTokensEver(engine)) =>
        /\ result.success
        /\ result.recognized_text # <<>>

(***************************************************************************)
(* HandwritingAnalyzer.correct_handwriting on a result of recognize        *)
(***************************************************************************)
MaxWords == 2

\* lines 1310-1311
CorrectedText(txt) ==
    Replace(Replace(txt, <<"t", "e", "h">>, <<"t", "h", "e">>),
            <<"a", "d", "n">>, <<"a", "n", "d">>)

\* lines 1305-1317
CorrectHandwriting(r) ==
    IF ~r.success THEN r
    ELSE [g \in DOMAIN r \cup {"corrected_text", "corrections_applied"} |->
            IF g = "corrected_text" THEN CorrectedText(r.recognized_text)
            ELSE IF g = "corrections_applied"
            THEN (IF CorrectedText(r.recognized_text) # r.recognized_text
                  THEN <<"Basic corrections applied">> ELSE <<>>)
            ELSE r[g]]

RecognizedWords ==
    {<<"t", "e", "h">>, <<"a", "d", "n">>, <<"t", "h", "e">>, <<"c", "a", "t">>,
     <<"t", "e", "h", "r", "a", "n">>, <<"h", "a", "d", "n">>}

\* texts of up to MaxWords words, one space or one newline between two words
RECURSIVE RecognizedTexts(_)
RecognizedTexts(n) ==
    IF n = 0 THEN {<<>>}
    ELSE IF n = 1 THEN RecognizedWords \cup {<<>>}
    ELSE RecognizedTexts(n - 1)
         \cup {t \o <<sep>> \o w : t \in RecognizedTexts(n - 1) \ {<<>>},
                                   sep \in {" ", "\n"}, w \in RecognizedWords}

RecognizeResults ==
    {SuccessResult(t, <<>>,
                   [characters |-> <<>>, total_found |-> 0, visual_overlay_path |-> ""],
                   <<>>, "",
                   Verdict(TRUE, "handwriting", "Image appears to contain handwriting")) :
        t \in RecognizedTexts(MaxWords)}
    \cup {ErrorResult("Image file not found")}

InitCorrect ==
    /\ pc = "correct"
    /\ result \in RecognizeResults
    /\ first_result = NoValue /\ calls = 1
    /\ image = NoValue /\ engine = NoValue /\ tesseract_available = TRUE
    /\ content_validation = NoValue /\ character_analysis = NoValue
    /\ attempt = 0 /\ best = NoValue /\ rival = NoValue
    /\ text = <<>> /\ tokens = <<>> /\ mapping = <<>> /\ word_feedback = <<>>
    /\ ran = {} /\ disk = {"image"}

Correct ==
    /\ pc = "correct"
    /\ result' = CorrectHandwriting(result)
    /\ pc' = "corrected"
    /\ UNCHANGED <<image, engine, tesseract_available, content_validation,
                   attempt, best, rival, character_analysis, text, tokens,
                   mapping, word_feedback, first_result, calls, ran, disk>>

SpecCorrect == InitCorrect /\ [][Correct]_vars

\* the whole-word correction dictionary
FixWord(w) ==
    IF w = <<"t", "e", "h">> THEN <<"t", "h", "e">>
    ELSE IF w = <<"a", "d", "n">> THEN <<"a", "n", "d">>
    ELSE w

\* txt with every maximal run of non-space characters passed through FixWord
RECURSIVE FixWordsFrom(_, _, _)
FixWordsFrom(txt, i, cur) ==
    IF i > Len(txt) THEN FixWord(cur)
    ELSE IF IsSpace(txt[i])
         THEN FixWord(cur) \o <<txt[i]>> \o FixWordsFrom(txt, i + 1, <<>>)
         ELSE FixWordsFrom(txt, i + 1, Append(cur, txt[i]))

\* C14: correct changes the recognized text only by replacing whole words
\* that equal an entry of its dictionary (teh -> the, adn -> and); a word that
\* only contains an entry is unchanged in corrected_text.
C14_WholeWordCorrections ==
    (pc = "corrected" /\ result.success) =>
        result.corrected_text = FixWordsFrom(result.recognized_text, 1, <<>>)

(***************************************************************************)
(* The /api/recognize-handwriting endpoint of main.py around one call of   *)
(* the recognizer                                                          *)
(***************************************************************************)
\* the uploaded file is stored before the recognizer sees it, so its path is
\* a string that names an existing file
Uploads == {img \in RecImages : img.path_kind \notin {"none", "missing"}}

InitRequest ==
    /\ pc = "request"
    /\ image \in Uploads
    /\ engine \in Engines
    /\ tesseract_available \in BOOLEAN
    /\ ~tesseract_available => engine.broken
    /\ disk = {}
    /\ content_validation = NoValue /\ character_analysis = NoValue
    /\ attempt = 0 /\ best = NoValue /\ rival = NoValue
    /\ text = <<>> /\ tokens = <<>> /\ mapping = <<>> /\ word_feedback = <<>>
    /\ result = NoValue /\ first_result = NoValue /\ calls = 0
    /\ ran = {}

\* main.py lines 478-485: the upload is written under the user's directory
E_Save ==
    /\ pc = "request"
    /\ disk' = disk \cup {"image"}
    /\ pc' = "idle"
    /\ UNCHANGED <<image, engine, tesseract_available, content_validation,
                   attempt, best, rival, character_analysis, text, tokens,
                   mapping, word_feedback, result, first_result, calls, ran>>

\* main.py line 489: the one call of the recognizer
E_Recognize == calls = 0 /\ R_Begin

\* main.py lines 491-546: the response is built and the finally clause
\* removes the stored upload
E_Respond ==
    /\ pc = "idle"
    /\ calls = 1
    /\ disk' = disk \ {"image"}
    /\ pc' = "responded"
    /\ UNCHANGED <<image, engine, tesseract_available, content_validation,
                   attempt, best, rival, character_analysis, text, tokens,
                   mapping, word_feedback, result, first_result, calls, ran>>

NextRequest ==
    \/ E_Save \/ E_Recognize \/ R_Validate \/ R_OcrBegin \/ R_Attempt
    \/ R_OcrEnd \/ R_Analyze \/ R_Assemble \/ R_Map \/ R_Finish \/ E_Respond

SpecRequest == InitRequest /\ [][NextRequest]_vars

\* C15: every file created while a recognize request is handled, the stored
\* upload and each overlay the pipeline writes, is gone from disk once the
\* request has finished, whichever way it finished.
C15_NoFileOutlivesRequest ==
    pc = "responded" => disk = {}

\* C16: the tokens of the selected transcription are never modified: the
\* tokens in the result of a call are the ones _ocr_with_tokens selected,
\* with no field added, removed or changed.
C16_SelectedTokensUnchanged ==
    (Returned /\ result.success) => result.tokens = best.tokens

(***************************************************************************)
(* The attempt loop as a reduction: the same engine answers evaluated in   *)
(* the order given (best) and in a permuted order (rival)                  *)
(***************************************************************************)
MaxMerged == 3

\* an answer that scores what RowsTehCat scores, with another text
RowsTheCat == <<BlockRow, Row(<<"t", "h", "e">>, 80, 10, 10, 1),
                Row(<<"c", "a", "t">>, 90, 46, 10, 1)>>

MergedAnswers ==
    {EngineError, Data(<<>>), Data(RowsTehCat), Data(RowsTheCat), Data(RowsDigits)}

Orders(n) ==
    {f \in [1..n -> 1..n] : \A i, j \in 1..n : f[i] = f[j] => i = j}

InitReduce ==
    /\ pc = "reduce"
    /\ \E n \in 1..MaxMerged :
          engine \in [answers : [1..n -> MergedAnswers], order : Orders(n)]
    /\ attempt = 0
    /\ best = InitialBest
    /\ rival = InitialBest
    /\ tesseract_available = TRUE
    /\ image = NoValue /\ content_validation = NoValue
    /\ character_analysis = NoValue
    /\ text = <<>> /\ tokens = <<>> /\ mapping = <<>> /\ word_feedback = <<>>
    /\ result = NoValue /\ first_result = NoValue /\ calls = 0
    /\ ran = {} /\ disk = {"image"}

\* one pass of the loop of lines 316-367 in each of the two orders
ReduceStep ==
    /\ pc = "reduce"
    /\ attempt < Len(engine.answers)
    /\ best' = TryAttempt(best, engine.answers[attempt + 1])
    /\ rival' = TryAttempt(rival, engine.answers[engine.order[attempt + 1]])
    /\ attempt' = attempt + 1
    /\ UNCHANGED <<pc, image, engine, tesseract_available, content_validation,
                   character_analysis, text, tokens, mapping, word_feedback,
                   result, first_result, calls, ran, disk>>

SpecReduce == InitReduce /\ [][ReduceStep]_vars

Reduced == pc = "reduce" /\ attempt = Len(engine.answers)

\* the attempt a loop over answers in the order ord retains: the first one,
\* in that order, whose score no other attempt with tokens exceeds
FirstMaximal(answers, ord) ==
    LET n == Len(answers)
        scored == {k \in 1..n : ProducesTokens(answers[ord[k]])}
        At(k) == AttemptOf(TokensOf(answers[ord[k]].rows))
        tops == {k \in scored : \A j \in scored : FracLe(At(j).score, At(k).score)}
    IN  IF scored = {} THEN InitialBest
        ELSE At(CHOOSE k \in tops : \A j \in tops : k <= j)

\* C17 as stated: the retained text and tokens are the same whatever order
\* the attempts are evaluated in, equal scores included.
C17_SelectionOrderIndependent ==
    Reduced => best.text = rival.text /\ best.tokens = rival.tokens

\* C17: the retained score is the same in every order of evaluation, and the
\* retained attempt is the first one, in the order of evaluation, that
\* reaches that score.
C17_FirstMaximalRetained ==
    Reduced =>
        /\ FracEq(best.score, rival.score)
        /\ best = FirstMaximal(engine.answers, [k \in 1..Len(engine.answers) |-> k])
        /\ rival = FirstMaximal(engine.answers, engine.order)

\* two attempts score the same with different texts, and the two orders
\* retain different ones
C17_Witness ==
    /\ Reduced
    /\ FracEq(best.score, rival.score)
    /\ best.tokens # <<>>
    /\ best.text # rival.text

(***************************************************************************)
(* Properties of the character segmenter: failures and overlap             *)
(***************************************************************************)
\* the contours of the image a region was cut from
ContoursOf(r) ==
    {i \in 1..Len(image.contours) : BoxInside(r.bbox, image.contours[i])}

\* C18: when classifying a character region fails, by an engine error or by
\* any other exception, the region's candidate list is empty; every
\* candidate list holds at most three candidates.
C18_FailedClassificationIsEmpty ==
    pc = "segmented" =>
        \A k \in 1..Len(Regions) :
           /\ Len(Regions[k].template_matches) <= 3
           /\ \A i \in ContoursOf(Regions[k]) :
                 (tesseract_available /\ image.contours[i].glyph.kind # "rows")
                    => Regions[k].template_matches = <<>>

\* a contour on which one of the three per-region steps fails
Failing(c) ==
    c.feat.raises \/ c.feat.analysis_raises \/ c.glyph.kind # "rows"

\* the same contour with no failing step
Healed(c) ==
    [c EXCEPT !.feat.raises = FALSE, !.feat.analysis_raises = FALSE,
              !.glyph = IF @.kind = "rows" THEN @
                        ELSE [kind |-> "rows", rows |-> <<>>]]

HealedImage(img) ==
    [img EXCEPT !.contours = [i \in 1..Len(img.contours) |-> Healed(img.contours[i])]]

\* the values region r holds for the steps that failed on contour c
SafeDefaults(c, r) ==
    /\ c.feat.raises => r.features = DefaultFeatures
    /\ c.feat.analysis_raises => r.errors = <<>>
    /\ (tesseract_available /\ c.glyph.kind = "crash") =>
          r.template_matches = <<Match(<<"?">>, <<1, 10>>, "Could not analyze")>>
    /\ c.glyph.kind = "engine_error" => r.template_matches = <<>>

\* C19: a failure of feature extraction, classification or error analysis on
\* one character region is isolated: the region is still produced, with the
\* safe defaults of the step that failed (the default feature set of area 100,
\* aspect ratio 1, no loop, no curve, one stroke), every region of a contour
\* with no failing step is exactly the region of the same image without the
\* failure, and the character analysis reports no error.
C19_RegionFailureIsolated ==
    (pc = "segmented" /\ ~image.load_fails) =>
        LET clean == AnalyzeCharacters(tesseract_available, HealedImage(image))
        IN  /\ "error" \notin DOMAIN character_analysis
            /\ Len(Regions) = Len(clean)
            /\ \A k \in 1..Len(Regions) :
                  /\ Regions[k].id = clean[k].id
                  /\ Regions[k].bbox = clean[k].bbox
                  /\ (\A i \in ContoursOf(Regions[k]) : ~Failing(image.contours[i]))
                        => Regions[k] = clean[k]
                  /\ \E i \in ContoursOf(Regions[k]) :
                        /\ Accepted(image, image.contours[i])
                        /\ SafeDefaults(image.contours[i], Regions[k])

\* a region with the default feature set beside a region measured in full
C19_Witness ==
    /\ pc = "segmented"
    /\ ~image.load_fails
    /\ \E k, j \in 1..Len(Regions) :
          /\ k # j
          /\ Regions[k].features = DefaultFeatures
          /\ \E i \in ContoursOf(Regions[k]) : image.contours[i].feat.raises
          /\ "perimeter" \in DOMAIN Regions[j].features
          /\ \A i \in ContoursOf(Regions[j]) : ~Failing(image.contours[i])

\* area shared by two boxes (x, y, w, h)
Shared(a, b) ==
    LET sw == Min(a[1] + a[3], b[1] + b[3]) - Max(a[1], b[1])
        sh == Min(a[2] + a[4], b[2] + b[4]) - Max(a[2], b[2])
    IN  IF sw > 0 /\ sh > 0 THEN sw * sh ELSE 0

\* C20: after the splitting step no two character regions of the result have
\* bounding boxes that overlap by more than a small tolerance, whether they
\* come from different contours or from one wide box; here the tolerance is
\* as large as half of the smaller box.
C20_RegionBoxesDisjoint ==
    pc = "segmented" =>
        \A k, j \in 1..Len(Regions) :
            k # j =>
               2 * Shared(Regions[k].bbox, Regions[j].bbox)
                  <= Min(Regions[k].bbox[3] * Regions[k].bbox[4],
                         Regions[j].bbox[3] * Regions[j].bbox[4])

(***************************************************************************)
(* Text reconstruction of one attempt (lines 345-361), over every short    *)
(* table of rows the engine may return                                     *)
(***************************************************************************)
MaxRows == 3

RowAt(word, left, line, par) ==
    [text |-> word, conf |-> 80, left |-> left, top |-> 10 + 28 * (line - 1),
     width |-> 30, height |-> 14, line_num |-> line, block_num |-> 1,
     par_num |-> par, word_num |-> 1]

\* words on the two lines of the first paragraph and the first line of the
\* second one
TableRows ==
    {BlockRow} \cup {RowAt(w, l, at[1], at[2]) :
                       w \in {<<"a">>, <<"c", "a", "t", " ">>}, l \in {10, 46},
                       at \in {<<1, 1>>, <<2, 1>>, <<1, 2>>}}

InitReconstruct ==
    /\ pc = "reconstruct"
    /\ \E n \in 1..MaxRows : \E rows \in [1..n -> TableRows] : engine = Data(rows)
    /\ attempt = 0
    /\ best = InitialBest
    /\ rival = NoValue
    /\ tesseract_available = TRUE
    /\ image = NoValue /\ content_validation = NoValue
    /\ character_analysis = NoValue
    /\ text = <<>> /\ tokens = <<>> /\ mapping = <<>> /\ word_feedback = <<>>
    /\ result = NoValue /\ first_result = NoValue /\ calls = 0
    /\ ran = {} /\ disk = {"image"}

\* the body of the attempt loop on the first attempt
Reconstruct ==
    /\ pc = "reconstruct"
    /\ best' = TryAttempt(best, engine)
    /\ attempt' = attempt + 1
    /\ pc' = "reconstructed"
    /\ UNCHANGED <<image, engine, tesseract_available, content_validation, rival,
                   character_analysis, text, tokens, mapping, word_feedback,
                   result, first_result, calls, ran, disk>>

SpecReconstruct == InitReconstruct /\ [][Reconstruct]_vars

\* the words of ts from the k-th on, a space after a word whose successor is
\* on the same (paragraph, line) and a newline after any other
RECURSIVE WordsWithSeparators(_, _)
WordsWithSeparators(ts, k) ==
    IF k > Len(ts) THEN <<>>
    ELSE ts[k].word
         \o (IF k = Len(ts) THEN <<>>
             ELSE IF SameLine(ts[k], ts[k + 1]) THEN <<" ">> ELSE <<"\n">>)
         \o WordsWithSeparators(ts, k + 1)

\* a comes before b in reading order: an earlier paragraph, or the same
\* paragraph and an earlier line, or the same line and further left
ReadsBefore(a, b) ==
    LET ka == <<a.par_num, a.line_num, a.bbox[1]>>
        kb == <<b.par_num, b.line_num, b.bbox[1]>>
    IN  \E i \in 1..3 : ka[i] < kb[i] /\ \A j \in 1..(i - 1) : ka[j] = kb[j]

\* ts holds each element of us once: some bijection of the indices carries
\* one onto the other
SameTokens(ts, us) ==
    /\ Len(ts) = Len(us)
    /\ \E f \in Orders(Len(ts)) : \A i \in 1..Len(ts) : ts[i] = us[f[i]]

\* C21: for an attempt that produced tokens, the retained tokens are the
\* attempt's tokens sorted by paragraph number, then line number, then left
\* x-offset, and the text is their words in that order, one word per token,
\* a single space between two tokens of the same (paragraph, line) and a
\* newline between two tokens of different ones.
C21_TextListsSortedTokens ==
    (pc = "reconstructed" /\ best.tokens # <<>>) =>
        /\ SameTokens(best.tokens, TokensOf(engine.rows))
        /\ \A i, j \in 1..Len(best.tokens) :
              i < j => ~ReadsBefore(best.tokens[j], best.tokens[i])
        /\ best.text = WordsWithSeparators(best.tokens, 1)
        /\ Split(best.text) = [i \in 1..Len(best.tokens) |-> best.tokens[i].word]

\* three tokens returned out of order, over two paragraphs
C21_Witness ==
    /\ pc = "reconstructed"
    /\ Len(best.tokens) = 3
    /\ best.tokens # TokensOf(engine.rows)
    /\ SameLine(best.tokens[1], best.tokens[2])
    /\ best.tokens[2].par_num < best.tokens[3].par_num
    /\ best.tokens[3].line_num < best.tokens[2].line_num

(***************************************************************************)
(* Priority of the three text sources in recognize_handwriting             *)
(***************************************************************************)
\* some image_to_data call of the request yields a token
SomeAttemptHasTokens ==
    \E k \in 1..NumAttempts : ProducesTokens(EngineAnswer(engine, k))

\* image_to_string yields a text
StringHasText == engine.string.kind = "text" /\ Strip(engine.string.text) # <<>>

\* C22: the whole-image extraction is called only if no attempt yielded a
\* token; the text assembled from the character regions becomes the text only
\* if the attempts and the whole-image extraction both yielded none; the text
\* of an earlier source is never replaced: the recognized text of a result is
\* the post-processed text of the attempts when one yielded a token, else
\* that of the whole-image extraction when it yielded a text.
C22_SourcesInStrictPriority ==
    /\ "string" \in ran => ~SomeAttemptHasTokens
    /\ "assembled" \in ran => (~SomeAttemptHasTokens /\ ~StringHasText)
    /\ (Returned /\ result.success /\ tesseract_available) =>
          /\ SomeAttemptHasTokens =>
                /\ best.tokens # <<>>
                /\ result.recognized_text = PostProcessText(best.text)
                /\ ran \cap {"string", "assembled"} = {}
          /\ (~SomeAttemptHasTokens /\ StringHasText) =>
                /\ result.recognized_text = PostProcessText(Strip(engine.string.text))
                /\ "string" \in ran /\ "assembled" \notin ran

\* all three sources occur: a result whose text was assembled from the
\* regions after the whole-image extraction was called and gave nothing
C22_Witness ==
    /\ Returned /\ result.success
    /\ {"string", "assembled"} \subseteq ran
    /\ result.recognized_text # <<>>

(***************************************************************************)
(* Properties of the word mapper                                           *)
(***************************************************************************)
\* distance from point p to the interval [lo, hi]
Gap(p, lo, hi) == Max(0, Max(lo - p, p - hi))

\* 2 * (vertical distance) + (horizontal distance) from the doubled centre c2
\* to the box of token t, doubled
WeightedGap(t, c2) ==
    2 * Gap(c2[2], 2 * t.bbox[2], 2 * (t.bbox[2] + t.bbox[4]))
      + Gap(c2[1], 2 * t.bbox[1], 2 * (t.bbox[1] + t.bbox[3]))

\* the same with the vertical distance counted once
PlainGap(t, c2) ==
    Gap(c2[2], 2 * t.bbox[2], 2 * (t.bbox[2] + t.bbox[4]))
      + Gap(c2[1], 2 * t.bbox[1], 2 * (t.bbox[1] + t.bbox[3]))

\* the entries of the mapping for the regions with bbox b
EntriesOf(b) == {j \in 1..Len(mapping) : mapping[j].char_bbox = b}

\* C23: with a non-empty token list every character region is assigned a
\* token; the token's box contains the region's centre if any token's box
\* does, and otherwise no token has a strictly smaller value of
\* 2 * (vertical distance) + (horizontal distance) from the centre to its box.
C23_ContainingElseNearestWord ==
    (pc \in {"feedback", "fed_back"} /\ tokens # <<>>) =>
        /\ \A k \in 1..Len(Regions) : EntriesOf(Regions[k].bbox) # {}
        /\ \A j \in 1..Len(mapping) :
              LET c2 == Center2(mapping[j].char_bbox)
                  t == tokens[mapping[j].word_index + 1]
              IN  IF \E wi \in 1..Len(tokens) : ContainsCenter(tokens[wi], c2)
                  THEN ContainsCenter(t, c2)
                  ELSE \A wi \in 1..Len(tokens) :
                          WeightedGap(t, c2) <= WeightedGap(tokens[wi], c2)

\* a region in no word box is assigned the word of the line below although
\* the word above it is nearer when both distances count the same
C23_Witness ==
    /\ pc = "fed_back"
    /\ \E j \in 1..Len(mapping) :
          LET c2 == Center2(mapping[j].char_bbox)
              t == tokens[mapping[j].word_index + 1]
          IN  /\ \A wi \in 1..Len(tokens) : ~ContainsCenter(tokens[wi], c2)
              /\ \E wi \in 1..Len(tokens) :
                    PlainGap(tokens[wi], c2) < PlainGap(t, c2)

\* the entries of the mapping under word index wi
EntriesUnder(wi) == {j \in 1..Len(mapping) : mapping[j].word_index = wi}

\* C24: for every word with k mapped regions the char_index values of those
\* regions are exactly 0, 1, ..., k-1, none missing or repeated, and of two
\* regions of one word the one whose bbox starts further left has the
\* smaller char_index.
C24_CharIndexIsRankInWord ==
    pc \in {"feedback", "fed_back"} =>
        \A wi \in 0..(Len(tokens) - 1) :
            /\ {mapping[j].char_index : j \in EntriesUnder(wi)}
                  = 0..(Cardinality(EntriesUnder(wi)) - 1)
            /\ \A i, j \in EntriesUnder(wi) :
                  /\ (i # j => mapping[i].char_index # mapping[j].char_index)
                  /\ (mapping[i].char_bbox[1] < mapping[j].char_bbox[1]
                        => mapping[i].char_index < mapping[j].char_index)

\* two regions given right one first are mapped to the second of two words
C24_Witness ==
    /\ pc = "fed_back"
    /\ Len(Regions) = 2
    /\ Regions[2].bbox[1] < Regions[1].bbox[1]
    /\ Cardinality(EntriesUnder(1)) = 2
    /\ \E i, j \in EntriesUnder(1) : mapping[i].char_index < mapping[j].char_index

(***************************************************************************)
(* The rule checks of _analyze_character_errors over the feature sets at   *)
(* and around each threshold                                               *)
(***************************************************************************)
FeatureSets ==
    {DefaultFeatures} \cup
    [area : {50}, perimeter : {30},
     aspect_ratio : {<<0, 1>>, <<29, 100>>, <<3, 10>>, <<1, 1>>, <<5, 2>>, <<26, 10>>},
     circularity : {0, 299, 300, 600, 601, 1000},
     has_loops : BOOLEAN, has_curves : BOOLEAN, stroke_count : 1..3]

InitErrors ==
    /\ pc = "features"
    /\ \E f \in FeatureSets : image = [features |-> f]
    /\ character_analysis = NoValue
    /\ engine = NoValue /\ tesseract_available = TRUE
    /\ content_validation = NoValue
    /\ attempt = 0 /\ best = NoValue /\ rival = NoValue
    /\ text = <<>> /\ tokens = <<>> /\ mapping = <<>> /\ word_feedback = <<>>
    /\ result = NoValue /\ first_result = NoValue /\ calls = 0
    /\ ran = {} /\ disk = {}

AnalyzeErrors ==
    /\ pc = "features"
    /\ character_analysis' =
          [characters |-> <<[id |-> 0, bbox |-> Box(0, 0, 8, 10),
                             features |-> image.features,
                             template_matches |-> <<>>,
                             errors |-> AnalyzeCharacterErrors(image.features)]>>]
    /\ pc' = "analysed"
    /\ UNCHANGED <<image, engine, tesseract_available, content_validation,
                   attempt, best, rival, text, tokens, mapping, word_feedback,
                   result, first_result, calls, ran, disk>>

SpecErrors == InitErrors /\ [][AnalyzeErrors]_vars

\* the kinds of issue the rules of the claim give for feature set f, a
\* feature the set lacks counting as absent (circularity 0, one stroke)
IssueKinds(f) ==
    LET circ == IF "circularity" \in DOMAIN f THEN f.circularity ELSE 0
    IN  {k \in {"incomplete_curve", "unclosed_loop", "flipped_letter",
                "compressed_letter", "broken_stroke"} :
           \/ k = "incomplete_curve" /\ f.has_curves /\ circ < 300
           \/ k = "unclosed_loop" /\ ~f.has_loops /\ circ > 600
           \/ k = "flipped_letter" /\ 2 * f.aspect_ratio[1] > 5 * f.aspect_ratio[2]
           \/ k = "compressed_letter" /\ 10 * f.aspect_ratio[1] < 3 * f.aspect_ratio[2]
           \/ k = "broken_stroke" /\ f.stroke_count > 2}

\* C25: the issue list of a region holds incomplete_curve exactly when a
\* curve is present and circularity < 0.3, unclosed_loop exactly when no loop
\* is present and circularity > 0.6, flipped_letter exactly when aspect ratio
\* > 2.5, compressed_letter exactly when aspect ratio < 0.3, broken_stroke
\* exactly when stroke_count > 2, no other issue and no kind twice.
C25_IssuesFollowTheRules ==
    pc = "analysed" =>
        LET errs == Regions[1].errors
        IN  /\ {errs[i].type : i \in 1..Len(errs)} = IssueKinds(image.features)
            /\ Len(errs) = Cardinality(IssueKinds(image.features))

\* a wide shape of three strokes with an irregular curve gets exactly the
\* three issues incomplete_curve, flipped_letter and broken_stroke
C25_Witness ==
    /\ pc = "analysed"
    /\ Len(Regions[1].errors) = 3
    /\ image.features.has_curves /\ image.features.has_loops
    /\ image.features.circularity = 299
    /\ image.features.stroke_count = 3
    /\ image.features.aspect_ratio = <<26, 10>>

(***************************************************************************)
(* Properties of the feedback synthesizer                                  *)
(***************************************************************************)
\* the issues of the feedback entry of word wi, none when it has no entry
IssuesUnder(wi) ==
    IF \E e \in 1..Len(word_feedback) : word_feedback[e].word_index = wi
    THEN word_feedback[CHOOSE e \in 1..Len(word_feedback) :
                          word_feedback[e].word_index = wi].issues
    ELSE <<>>

\* C26: feedback synthesis emits exactly one issue entry per mapped region
\* with a non-empty issue list, under the region's word index, with the
\* description and suggestion of the region's first issue; a region with no
\* issue contributes none; a letter hint is attached only when the region's
\* top candidate has confidence >= 0.5, and is that candidate's letter.
C26_OneIssuePerFlaggedRegion ==
    pc = "fed_back" =>
        \A wi \in 0..(Len(tokens) - 1) :
            LET flagged == {j \in EntriesUnder(wi) : mapping[j].errors # <<>>}
                issues == IssuesUnder(wi)
            IN  /\ Len(issues) = Cardinality(flagged)
                /\ \A j \in flagged :
                      \E i \in 1..Len(issues) :
                         /\ issues[i].char_index = mapping[j].char_index
                         /\ issues[i].description = mapping[j].errors[1].description
                         /\ issues[i].suggestion = mapping[j].errors[1].suggestion
                         /\ issues[i].letter_hint # <<>> =>
                               /\ mapping[j].template_matches # <<>>
                               /\ FracLe(<<1, 2>>, mapping[j].template_matches[1].confidence)
                               /\ issues[i].letter_hint = mapping[j].template_matches[1].letter

\* one word with a clean region and a region flagged twice whose candidate
\* is weak: one issue, that of the first flag, without a hint
C26_Witness ==
    /\ pc = "fed_back"
    /\ \E wi \in 0..(Len(tokens) - 1) :
          /\ Cardinality(EntriesUnder(wi)) = 2
          /\ Len(IssuesUnder(wi)) = 1
          /\ IssuesUnder(wi)[1].letter_hint = <<>>
          /\ IssuesUnder(wi)[1].description = CurveIssue.description
          /\ \E j \in EntriesUnder(wi) : Len(mapping[j].errors) = 2

(***************************************************************************)
(* The /api/correct-handwriting endpoint of main.py and the recognizer     *)
(* object main.py binds at startup.  engine holds the binding.             *)
(***************************************************************************)
\* the operations each class offers the web layer
Operations(class) ==
    IF class = "TesseractOCRProcessor" THEN {"recognize_handwriting"}
    ELSE IF class = "MockHandwritingRecognizer"
    THEN {"recognize_handwriting", "correct_handwriting"}
    ELSE {}

\* main.py lines 45-54: the class of handwriting_recognizer
BoundRecognizer(import_fails) ==
    IF import_fails THEN "MockHandwritingRecognizer" ELSE "TesseractOCRProcessor"

InitCorrectRequest ==
    /\ pc = "startup"
    /\ image \in Uploads
    /\ engine \in [import_fails : BOOLEAN]
    /\ tesseract_available \in BOOLEAN
    /\ disk = {}
    /\ content_validation = NoValue /\ character_analysis = NoValue
    /\ attempt = 0 /\ best = NoValue /\ rival = NoValue
    /\ text = <<>> /\ tokens = <<>> /\ mapping = <<>> /\ word_feedback = <<>>
    /\ result = NoValue /\ first_result = NoValue /\ calls = 0
    /\ ran = {}

\* main.py lines 45-54
W_Startup ==
    /\ pc = "startup"
    /\ engine' = [handwriting_recognizer |-> BoundRecognizer(engine.import_fails)]
    /\ pc' = "request"
    /\ UNCHANGED <<image, tesseract_available, content_validation, attempt, best,
                   rival, character_analysis, text, tokens, mapping,
                   word_feedback, result, first_result, calls, ran, disk>>

\* main.py lines 559-563: the upload is written under the user's directory
W_Save ==
    /\ pc = "request"
    /\ disk' = disk \cup {"image"}
    /\ pc' = "saved"
    /\ UNCHANGED <<image, engine, tesseract_available, content_validation,
                   attempt, best, rival, character_analysis, text, tokens,
                   mapping, word_feedback, result, first_result, calls, ran>>

\* main.py line 567: the attribute lookup raises when the bound object has
\* no correct_handwriting; the mock answers with its fixed result
W_Correct ==
    /\ pc = "saved"
    /\ result' =
          IF "correct_handwriting" \notin Operations(engine.handwriting_recognizer)
          THEN [unhandled |-> "AttributeError"]
          ELSE [success |-> FALSE, error |-> "Handwriting correction not available"]
    /\ calls' = calls + 1
    /\ pc' = "called"
    /\ UNCHANGED <<image, engine, tesseract_available, content_validation,
                   attempt, best, rival, character_analysis, text, tokens,
                   mapping, word_feedback, first_result, ran, disk>>

\* main.py lines 569-614: a result without success is returned as it is, an
\* exception leaves through the finally clause, which removes the upload
W_Respond ==
    /\ pc = "called"
    /\ disk' = disk \ {"image"}
    /\ pc' = "responded"
    /\ UNCHANGED <<image, engine, tesseract_available, content_validation,
                   attempt, best, rival, character_analysis, text, tokens,
                   mapping, word_feedback, result, first_result, calls, ran>>

NextCorrectRequest == W_Startup \/ W_Save \/ W_Correct \/ W_Respond

SpecCorrectRequest == InitCorrectRequest /\ [][NextCorrectRequest]_vars

\* C27: whichever recognizer object is bound at startup offers recognize and
\* correct, and a correct-handwriting request for a valid image ends with a
\* result that carries corrected_text or has success = false, never with an
\* unhandled error.
C27_CorrectIsReachable ==
    /\ pc # "startup" =>
          {"recognize_handwriting", "correct_handwriting"}
             \subseteq Operations(engine.handwriting_recognizer)
    /\ (pc = "responded" /\ ValidImage) =>
          /\ "unhandled" \notin DOMAIN result
          /\ "corrected_text" \in DOMAIN result \/ ~result.success

(***************************************************************************)
(* Totality of the word mapper                                             *)
(***************************************************************************)
\* C28: with a non-empty token list every character region appears exactly
\* once in the mapping, which has as many entries as there are regions; with
\* an empty token list or an empty region list the mapping and the word
\* feedback are both empty.
C28_MappingTotalOrEmpty ==
    pc = "fed_back" =>
        /\ tokens # <<>> =>
              /\ Len(mapping) = Len(Regions)
              /\ \A k \in 1..Len(Regions) :
                    Cardinality(EntriesOf(Regions[k].bbox))
                       = Cardinality({i \in 1..Len(Regions) :
                                         Regions[i].bbox = Regions[k].bbox})
        /\ (tokens = <<>> \/ Regions = <<>>) =>
              (mapping = <<>> /\ word_feedback = <<>>)

\* two regions, neither with its centre in the box of the only word, are
\* both mapped
C28_Witness ==
    /\ pc = "fed_back"
    /\ Len(tokens) = 1
    /\ Len(Regions) = 2
    /\ \A k \in 1..2 : ~ContainsCenter(tokens[1], Center2(Regions[k].bbox))
    /\ Regions[1].bbox # Regions[2].bbox
    /\ Len(mapping) = 2

(***************************************************************************)
(* The failure results of recognize_handwriting                            *)
(***************************************************************************)
\* C29: every result of recognize with success = false, on each of its
\* failure paths, carries a non-empty error message, an empty recognized
\* text, confidence 0 and an empty character list.
C29_FailureResultIsUniform ==
    (Returned /\ ~result.success) =>
        /\ "error" \in DOMAIN result
        /\ result.error # ""
        /\ result.recognized_text = <<>>
        /\ result.confidence = <<0, 1>>
        /\ result.character_analysis.characters = <<>>

(***************************************************************************)
(* _post_process_text applied to a text and then to its own output         *)
(***************************************************************************)
MaxText == 4

RawTexts == UNION {[1..n -> {"r", "i", "v", "1", " "}] : n \in 0..MaxText}

InitPostProcess ==
    /\ pc = "post_process"
    /\ text \in RawTexts
    /\ rival = NoValue
    /\ calls = 0
    /\ image = NoValue /\ engine = NoValue /\ tesseract_available = TRUE
    /\ content_validation = NoValue /\ character_analysis = NoValue
    /\ attempt = 0 /\ best = NoValue
    /\ tokens = <<>> /\ mapping = <<>> /\ word_feedback = <<>>
    /\ result = NoValue /\ first_result = NoValue
    /\ ran = {} /\ disk = {}

\* one application; rival keeps the text it was applied to
PostProcess ==
    /\ pc = "post_process"
    /\ calls < 2
    /\ rival' = [text |-> text]
    /\ text' = PostProcessText(text)
    /\ calls' = calls + 1
    /\ UNCHANGED <<pc, image, engine, tesseract_available, content_validation,
                   attempt, best, character_analysis, tokens, mapping,
                   word_feedback, result, first_result, ran, disk>>

SpecPostProcess == InitPostProcess /\ [][PostProcess]_vars

\* position i of s is a digit d with no word character on either side
Isolated(s, i, d) ==
    /\ s[i] = d
    /\ (i = 1 \/ ~IsWordChar(s[i - 1]))
    /\ (i = Len(s) \/ ~IsWordChar(s[i + 1]))

\* C30: post-processing is idempotent: applied to its own output it changes
\* nothing, and its output holds none of the pairs it rewrites (rn, cl, vv,
\* ii), no isolated 1 or 0 and no run of four or more identical characters.
C30_PostProcessIdempotent ==
    /\ (pc = "post_process" /\ calls = 2) => text = rival.text
    /\ (pc = "post_process" /\ calls >= 1) =>
          /\ \A pair \in {<<"r", "n">>, <<"c", "l">>, <<"v", "v">>, <<"i", "i">>} :
                ~Contains(text, pair)
          /\ \A i \in 1..Len(text) : ~Isolated(text, i, "1") /\ ~Isolated(text, i, "0")
          /\ \A i \in 1..(Len(text) - 3) :
                ~(text[i] # "\n" /\ \A k \in i..(i + 3) : text[k] = text[i])

====
